---- MODULE Spec2Model ----
(***************************************************************************)
(* Verification model of the verilog-wavedrom conversion core:             *)
(*   - VCDParser            (vcd_to_wavedrom.py)                           *)
(*   - WaveDromGenerator    (vcd_to_wavedrom.py)                           *)
(*   - Port.get_full_name   (verilog_parser.py)                            *)
(*   - fuzzy_match_score / reorder_wavedrom_signals                        *)
(*                          (signal_order_extractor.py)                    *)
(* Python strings are modelled as sequences of one-character strings, so   *)
(* that lower(), substring tests, regular-expression stripping and number  *)
(* formatting are computed rather than assumed.                            *)
(***************************************************************************)
EXTENDS Integers, Sequences, FiniteSets, TLC

VARIABLES
    \* ---- VCDParser object and the position of a running parse() ----
    lines,            \* vcd_content.split('\n'), each line a record
    line_idx,         \* the loop index i of parse()
    pc,               \* "idle" | "header" | "values" | "parsed" | "done"
    objs,             \* heap of VCDSignal objects, in allocation order
    signals,          \* self.signals: insertion-ordered dict full_name -> object
    id_to_signal,     \* self.id_to_signal: insertion-ordered dict id -> object
    current_scope,    \* self.current_scope
    timescale,        \* self.timescale
    end_time,         \* self.end_time
    current_time,     \* the local current_time of parse()
    parse_log,        \* the texts given to parse() so far with the VCDData
                      \* each call returned
    \* ---- WaveDromGenerator object, its input and its last result ----
    vcd_data,         \* the VCDData handed to generate()
    gen,              \* the generator's fields
    gen_built,        \* the generator's fields as its constructor left them
    generate_args,    \* the io_port_names argument of the last generate()
    doc,              \* the document returned by the last generate()
    \* ---- reorder_wavedrom_signals call ----
    heap,             \* dict objects: heap[1] is the caller's wavedrom_dict
    reference_order,  \* argument reference_order
    filter_to_reference,
    rpc,              \* "idle" | "match" | "rest" | "done"
    ref_idx,          \* position of the for-loop over reference_order
    reordered,        \* local list reordered (references to input entries)
    used_indices,     \* local set used_indices
    result,           \* reference (heap index) of the returned dict, 0 = none yet
    \* ---- a fuzzy_match_score call ----
    fuzzy_args,       \* the arguments ocr_name, signal_name
    fuzzy_result,     \* the returned score, <<>> before the call returns
    \* ---- VerilogPipeline object and a process() call ----
    pipeline,         \* the pipeline's fields (match_original)
    process_args,     \* arguments verilog_code, original_image_path of process()
    module,           \* local module = parse_verilog(verilog_code)
    sim_result,       \* local result = self.sim_runner.run(...)
    ppc,              \* position of process(): "idle" | "testbench" | "simulation"
                      \* | "vcd_convert" | "converting" | "render" | "returned"
    stages_run,       \* the stages entered so far, in order
    returned          \* the tuple (sample, stage, message) process() returned;
                      \* an Optional sample is a sequence of at most one record

parserVars_but_pc == <<lines, line_idx, objs, signals, id_to_signal,
                       current_scope, timescale, end_time, current_time>>
parserVars == <<lines, line_idx, pc, objs, signals, id_to_signal,
                current_scope, timescale, end_time, current_time, parse_log>>
encoderVars == <<vcd_data, gen, gen_built, generate_args, doc>>
reorderVars == <<heap, reference_order, filter_to_reference, rpc, ref_idx,
                 reordered, used_indices, result, fuzzy_args, fuzzy_result>>
pipelineVars == <<pipeline, process_args, module, sim_result, ppc, stages_run,
                  returned>>

vars == <<parserVars, encoderVars, reorderVars, pipelineVars>>

-----------------------------------------------------------------------------
(* Python str primitives                                                   *)

UpperChars ==
  << "A", "B", "C", "D", "E", "F", "G", "H", "I", "J", "K", "L", "M", "N", "O", "P", "Q", "R", "S", "T", "U", "V", "W", "X", "Y", "Z" >>

LowerChars ==
  << "a", "b", "c", "d", "e", "f", "g", "h", "i", "j", "k", "l", "m", "n", "o", "p", "q", "r", "s", "t", "u", "v", "w", "x", "y", "z" >>

AsciiChars ==
  << "!", "dquote", "#", "$", "%", "&", "'", "(", ")", "*", "+", ",", "-", ".", "/", "0", "1", "2", "3", "4", "5", "6", "7", "8", "9", ":", ";", "<", "=", ">", "?", "@", "A", "B", "C", "D", "E", "F", "G", "H", "I", "J", "K", "L", "M", "N", "O", "P", "Q", "R", "S", "T", "U", "V", "W", "X", "Y", "Z", "[", "backslash", "]", "^", "_", "backtick", "a", "b", "c", "d", "e", "f", "g", "h", "i", "j", "k", "l", "m", "n", "o", "p", "q", "r", "s", "t", "u", "v", "w", "x", "y", "z", "{", "|", "}", "~" >>

IndexIn(seq, c) == CHOOSE k \in 1..Len(seq) : seq[k] = c

OrdTable == [c \in { AsciiChars[k] : k \in 1..Len(AsciiChars) } |-> IndexIn(AsciiChars, c)]

\* ord(c) - 32 for a printable character: the order Python compares strings by
\* (the double quote, backslash and backtick keep their places under a long name)
Ord(c) == OrdTable[c]

LowerTable == [c \in { UpperChars[k] : k \in 1..Len(UpperChars) } |->
                  LowerChars[IndexIn(UpperChars, c)]]

LowerChar(c) == IF c \in DOMAIN LowerTable THEN LowerTable[c] ELSE c

\* str.lower()
Lower(s) == [k \in 1..Len(s) |-> LowerChar(s[k])]

\* sub in s
Contains(s, sub) ==
    \E k \in 0..(Len(s) - Len(sub)) : SubSeq(s, k + 1, k + Len(sub)) = sub

\* s.startswith(p), s.endswith(p)
StartsWith(s, p) == Len(p) <= Len(s) /\ SubSeq(s, 1, Len(p)) = p

EndsWith(s, p) == Len(p) <= Len(s) /\ SubSeq(s, Len(s) - Len(p) + 1, Len(s)) = p

\* s.replace(old, new) for single characters
ReplaceChar(s, old, new) == [k \in 1..Len(s) |-> IF s[k] = old THEN new ELSE s[k]]

\* s < t for Python strings (lexicographic by code point)
RECURSIVE StrLess(_, _)
StrLess(s, t) ==
    IF t = <<>> THEN FALSE
    ELSE IF s = <<>> THEN TRUE
    ELSE IF s[1] = t[1] THEN StrLess(Tail(s), Tail(t))
    ELSE Ord(s[1]) < Ord(t[1])

\* '.'.join(parts)
RECURSIVE JoinDot(_)
JoinDot(parts) ==
    IF parts = <<>> THEN <<>>
    ELSE IF Len(parts) = 1 THEN parts[1]
    ELSE parts[1] \o <<".">> \o JoinDot(Tail(parts))

\* c * n
Repeat(c, n) == [k \in 1..n |-> c]

Digits == << "0", "1", "2", "3", "4", "5", "6", "7", "8", "9" >>

HexDigits == << "0", "1", "2", "3", "4", "5", "6", "7", "8", "9", "A", "B", "C", "D", "E", "F" >>

\* str(n) / f"{n}" for an int
RECURSIVE NatToStr(_)
NatToStr(n) ==
    IF n < 10 THEN << Digits[n + 1] >>
    ELSE NatToStr(n \div 10) \o << Digits[(n % 10) + 1] >>

IntToStr(n) == IF n < 0 THEN <<"-">> \o NatToStr(0 - n) ELSE NatToStr(n)

\* format(n, 'X')
RECURSIVE FormatHex(_)
FormatHex(n) ==
    IF n < 16 THEN << HexDigits[n + 1] >>
    ELSE FormatHex(n \div 16) \o << HexDigits[(n % 16) + 1] >>

\* int(value, 2) succeeds on the strings the model uses iff they are
\* non-empty strings of binary digits
IsBinary(value) == value # <<>> /\ \A k \in 1..Len(value) : value[k] \in {"0", "1"}

RECURSIVE BinToInt(_)
BinToInt(value) ==
    IF value = <<>> THEN 0
    ELSE 2 * BinToInt(SubSeq(value, 1, Len(value) - 1))
         + (IF value[Len(value)] = "1" THEN 1 ELSE 0)

Min(a, b) == IF a < b THEN a ELSE b

Max(a, b) == IF a > b THEN a ELSE b

-----------------------------------------------------------------------------
(* config.py                                                               *)

MAX_SIGNALS == 20

MAX_TIME_STEPS == 50

-----------------------------------------------------------------------------
(* verilog_parser.Port                                                     *)

\* Port(name, direction, msb=..., lsb=...) followed by __post_init__.
\* Optional[int] fields are a flag plus a value.
MkPort(name, width, hasMsb, msb, hasLsb, lsb) ==
    [ name |-> name,
      width |-> IF hasMsb /\ hasLsb
                THEN (IF msb >= lsb THEN msb - lsb ELSE lsb - msb) + 1
                ELSE width,
      hasMsb |-> hasMsb, msb |-> msb, hasLsb |-> hasLsb, lsb |-> lsb ]

get_full_name(port) ==
    IF port.width = 1
    THEN IF port.hasMsb /\ port.hasLsb
         THEN port.name \o <<"[">> \o IntToStr(port.msb) \o <<":">>
              \o IntToStr(port.lsb) \o <<"]">>
         ELSE port.name
    ELSE LET msb == IF port.hasMsb THEN port.msb ELSE port.width - 1
             lsb == IF port.hasLsb THEN port.lsb ELSE 0
         IN port.name \o <<"[">> \o IntToStr(msb) \o <<":">>
            \o IntToStr(lsb) \o <<"]">>

-----------------------------------------------------------------------------
(* verilog_parser.VerilogParser                                            *)
(* A source text is modelled by what the parser's patterns find in it:     *)
(* whether _module_pattern matches, the comma-separated items of the       *)
(* header's port list, and the matches of _port_decl_pattern in the body.  *)
(* Bit bounds stay strings, so that _parse_bit_index is computed.          *)

\* a Port as the parser builds it: the dataclass fields after __post_init__
NewPort(name, direction, width, hasMsb, msb, hasLsb, lsb, is_reg, is_signed) ==
    MkPort(name, width, hasMsb, msb, hasLsb, lsb)
    @@ [direction |-> direction, is_reg |-> is_reg, is_signed |-> is_signed]

\* str.strip() for the blanks the model uses
RECURSIVE Strip(_)
Strip(s) ==
    IF s = <<>> THEN s
    ELSE IF s[1] = " " THEN Strip(Tail(s))
    ELSE IF s[Len(s)] = " " THEN Strip(SubSeq(s, 1, Len(s) - 1))
    ELSE s

IsDigits(s) == s # <<>> /\ \A k \in 1..Len(s) : \E d \in 1..Len(Digits) : Digits[d] = s[k]

RECURSIVE DigitsToNat(_)
DigitsToNat(s) ==
    IF s = <<>> THEN 0
    ELSE 10 * DigitsToNat(SubSeq(s, 1, Len(s) - 1)) + (IndexIn(Digits, s[Len(s)]) - 1)

\* whether int(s) succeeds: an optional sign and decimal digits
IsIntLiteral(s) ==
    /\ s # <<>>
    /\ IF s[1] \in {"+", "-"} THEN IsDigits(Tail(s)) ELSE IsDigits(s)

StrToInt(s) ==
    IF s[1] = "-" THEN 0 - DigitsToNat(Tail(s))
    ELSE IF s[1] = "+" THEN DigitsToNat(Tail(s))
    ELSE DigitsToNat(s)

\* _parse_bit_index: the int of a literal, None (has = FALSE) otherwise
_parse_bit_index(present, index_str) ==
    IF present /\ IsIntLiteral(Strip(index_str))
    THEN [has |-> TRUE, val |-> StrToInt(Strip(index_str))]
    ELSE [has |-> FALSE, val |-> 0]

\* an item of the header's port list, as _ansi_port_pattern reads it; an
\* item without a direction keyword is a bare identifier and is not matched
HeaderItem(direction, is_signed, hasRange, msb_str, lsb_str, name) ==
    [ direction |-> direction, is_signed |-> is_signed, hasRange |-> hasRange,
      msb_str |-> msb_str, lsb_str |-> lsb_str, name |-> name ]

\* a match of _port_decl_pattern in the module body
BodyDecl(direction, net, is_signed, hasRange, msb_str, lsb_str, names) ==
    [ direction |-> direction, net |-> net, is_signed |-> is_signed,
      hasRange |-> hasRange, msb_str |-> msb_str, lsb_str |-> lsb_str,
      names |-> names ]

ReservedNames ==
    { <<"w", "i", "r", "e">>, <<"r", "e", "g">>, <<"s", "i", "g", "n", "e", "d">>,
      <<"u", "n", "s", "i", "g", "n", "e", "d">> }

\* the Port of one ANSI match, lines 223-246
AnsiPort(item) ==
    LET msb == _parse_bit_index(item.hasRange, item.msb_str)
        lsb == _parse_bit_index(item.hasRange, item.lsb_str)
    IN IF item.hasRange
       THEN IF msb.has /\ lsb.has
            THEN NewPort(item.name, Lower(item.direction),
                         (IF msb.val >= lsb.val THEN msb.val - lsb.val
                          ELSE lsb.val - msb.val) + 1,
                         TRUE, msb.val, TRUE, lsb.val, FALSE, item.is_signed)
            ELSE NewPort(item.name, Lower(item.direction), 8, TRUE, 7, TRUE, 0,
                         FALSE, item.is_signed)
       ELSE NewPort(item.name, Lower(item.direction), 1, FALSE, 0, FALSE, 0,
                    FALSE, item.is_signed)

\* _parse_ansi_ports: the loop over the matches with its seen_names
RECURSIVE AnsiPortsFrom(_, _, _)
AnsiPortsFrom(header, k, seen_names) ==
    IF k > Len(header) THEN <<>>
    ELSE IF header[k].direction = <<>>
            \/ Lower(header[k].name) \in ReservedNames
            \/ header[k].name \in seen_names
         THEN AnsiPortsFrom(header, k + 1, seen_names)
         ELSE << AnsiPort(header[k]) >>
              \o AnsiPortsFrom(header, k + 1, seen_names \cup {header[k].name})

_parse_ansi_ports(header) == AnsiPortsFrom(header, 1, {})

\* the keywords re.sub removes in _extract_port_names, in pattern order
RemovedWords ==
    << <<"i", "n", "p", "u", "t">>, <<"o", "u", "t", "p", "u", "t">>,
       <<"i", "n", "o", "u", "t">>, <<"r", "e", "g">>, <<"w", "i", "r", "e">> >>

\* the first removed word that the text starts with (0 if none), ignoring case
RemovedWordAt(s) ==
    LET ks == { k \in 1..Len(RemovedWords) : StartsWith(Lower(s), RemovedWords[k]) }
    IN IF ks = {} THEN 0 ELSE CHOOSE k \in ks : \A j \in ks : k <= j

\* re.sub(r'(input|output|inout|reg|wire|\[[^\]]+\])', '', text) on a word
RECURSIVE RemoveWords(_)
RemoveWords(s) ==
    IF s = <<>> THEN <<>>
    ELSE LET k == RemovedWordAt(s)
         IN IF k # 0
            THEN RemoveWords(SubSeq(s, Len(RemovedWords[k]) + 1, Len(s)))
            ELSE << s[1] >> \o RemoveWords(Tail(s))

\* what is left of one header item after the removal and strip(): the
\* direction and the range are removed, 'signed' and the name stay
CleanedItem(item) ==
    LET nm == RemoveWords(item.name)
    IN IF item.direction # <<>> /\ item.is_signed
       THEN <<"s", "i", "g", "n", "e", "d", " ">> \o nm
       ELSE nm

\* _extract_port_names: the cleaned items that are one identifier
RECURSIVE ExtractFrom(_, _)
ExtractFrom(header, k) ==
    IF k > Len(header) THEN <<>>
    ELSE LET n == Strip(CleanedItem(header[k]))
         IN (IF n # <<>> /\ ~Contains(n, <<" ">>) THEN << n >> ELSE <<>>)
            \o ExtractFrom(header, k + 1)

_extract_port_names(header) == ExtractFrom(header, 1)

\* the Port of one name of a body declaration, lines 278-286: width is left
\* to the dataclass default and __post_init__
NonAnsiPort(decl, name) ==
    LET msb == _parse_bit_index(decl.hasRange /\ decl.msb_str # <<>>, decl.msb_str)
        lsb == _parse_bit_index(decl.hasRange /\ decl.lsb_str # <<>>, decl.lsb_str)
    IN NewPort(name, Lower(decl.direction), 1, msb.has, msb.val, lsb.has, lsb.val,
               Lower(decl.net) = <<"r", "e", "g">>, decl.is_signed)

\* for name in names_str.split(','), lines 275-286
RECURSIVE PortsOfNames(_, _, _, _)
PortsOfNames(decl, names, k, port_name_set) ==
    IF k > Len(names) THEN <<>>
    ELSE LET name == Strip(names[k])
         IN (IF name # <<>> /\ (port_name_set = {} \/ name \in port_name_set)
             THEN << NonAnsiPort(decl, name) >> ELSE <<>>)
            \o PortsOfNames(decl, names, k + 1, port_name_set)

RECURSIVE NonAnsiFrom(_, _, _)
NonAnsiFrom(body, k, port_name_set) ==
    IF k > Len(body) THEN <<>>
    ELSE PortsOfNames(body[k], body[k].names, 1, port_name_set)
         \o NonAnsiFrom(body, k + 1, port_name_set)

_parse_non_ansi_ports(body, port_names) ==
    NonAnsiFrom(body, 1, { port_names[k] : k \in 1..Len(port_names) })

\* the value None of parse(); isNone tells it from a module without ports
NoModule == [isNone |-> TRUE, name |-> <<>>, ports |-> <<>>]

\* VerilogParser.parse / parse_verilog: the module's name and ports; the
\* parameters and raw_code are read by no operation modelled here
parse_verilog(code) ==
    IF ~code.hasModule THEN NoModule
    ELSE LET ansi == _parse_ansi_ports(code.header)
         IN [ isNone |-> FALSE,
              name  |-> code.name,
              ports |-> IF ansi # <<>> THEN ansi
                        ELSE _parse_non_ansi_ports(code.body,
                                                   _extract_port_names(code.header)) ]

-----------------------------------------------------------------------------
(* VCDSignal / VCDData                                                     *)

\* The value None of last_value in the wave loops; no signal value equals it
NoneValue == << "None" >>

\* VCDSignal.get_value_at: scan the change list, stop at the first change
\* later than `time`
RECURSIVE GetValueAtFrom(_, _, _, _)
GetValueAtFrom(values, time, k, last_value) ==
    IF k > Len(values) THEN last_value
    ELSE IF values[k].t > time THEN last_value
    ELSE GetValueAtFrom(values, time, k + 1, values[k].v)

\* mutant: no value before the first change
get_value_at_NoneBefore(signal, time) == GetValueAtFrom(signal.values, time, 1, NoneValue)

\* last_value = 'x' before the first change, lines 30-35
get_value_at(signal, time) == GetValueAtFrom(signal.values, time, 1, <<"x">>)

-----------------------------------------------------------------------------
(* WaveDromGenerator                                                       *)

SIGNAL_GROUPS ==
  << << <<"c", "l", "k">>, <<"c", "l", "o", "c", "k">>, <<"c", "l", "k", "_", "e", "n", "a">> >>,
     << <<"r", "s", "t">>, <<"r", "e", "s", "e", "t">>, <<"r", "s", "t", "n">>, <<"r", "s", "t", "_", "n">>, <<"r", "e", "s", "e", "t", "n">> >>,
     << <<"f", "u", "l", "l">>, <<"a", "_", "f", "u", "l", "l">>, <<"a", "l", "m", "o", "s", "t", "_", "f", "u", "l", "l">> >>,
     << <<"r", "d", "_", "e", "n">>, <<"r", "e">>, <<"r", "e", "a", "d">>, <<"r", "d">> >>,
     << <<"d", "o", "u", "t">>, <<"r", "d", "a", "t", "a">>, <<"r", "d", "_", "d", "a", "t", "a">>, <<"d", "a", "t", "a", "_", "o", "u", "t">>, <<"q">> >>,
     << <<"w", "r", "_", "e", "n">>, <<"w", "e">>, <<"w", "r", "i", "t", "e">>, <<"w", "r">> >>,
     << <<"e", "m", "p", "t", "y">>, <<"a", "_", "e", "m", "p", "t", "y">>, <<"a", "l", "m", "o", "s", "t", "_", "e", "m", "p", "t", "y">> >>,
     << <<"d", "i", "n">>, <<"w", "d", "a", "t", "a">>, <<"w", "r", "_", "d", "a", "t", "a">>, <<"d", "a", "t", "a", "_", "i", "n">>, <<"d">> >>,
     << <<"e", "n">>, <<"e", "n", "a", "b", "l", "e">>, <<"v", "a", "l", "i", "d">>, <<"r", "e", "a", "d", "y">>, <<"s", "t", "a", "r", "t">>, <<"d", "o", "n", "e">> >>,
     << <<"a", "d", "d", "r">>, <<"a", "d", "d", "r", "e", "s", "s">>, <<"d", "a", "t", "a">> >> >>

INTERNAL_SIGNAL_PATTERNS ==
  << <<"i">>, <<"j">>, <<"k">>, <<"g", "e", "n", "v", "a", "r">>, <<"m", "e", "m", "o", "r", "y">>, <<"m", "e", "m">>, <<"c", "n", "t", "_">> >>

\* The opaque config / head / foot dictionaries of config.py
WAVEDROM_CONFIG == "hscale=2"

WAVEDROM_HEAD == "Timing Diagram"

WAVEDROM_FOOT == "Cycle numbers"

\* set(p.lower() for p in (io_port_names or []))
LowerNameSet(names) == { Lower(names[k]) : k \in 1..Len(names) }

\* WaveDromGenerator.__init__; the argument None and the argument 0 take the
\* same branch of `max_signals or config.MAX_SIGNALS`, both are written 0
NewGenerator(max_signals, max_time_steps, io_ports_only, io_port_names, port_definitions, use_port_order, use_vcd_order, match_original) ==
    [ max_signals      |-> IF max_signals = 0 THEN MAX_SIGNALS ELSE max_signals,
      max_time_steps   |-> IF max_time_steps = 0 THEN MAX_TIME_STEPS ELSE max_time_steps,
      io_ports_only    |-> IF match_original THEN FALSE ELSE io_ports_only,
      use_vcd_order    |-> IF match_original THEN TRUE ELSE use_vcd_order,
      use_port_order   |-> IF match_original THEN FALSE ELSE use_port_order,
      io_port_names    |-> LowerNameSet(io_port_names),
      port_definitions |-> port_definitions ]

\* mutant: the keys of the map keep the ports' letter case
InPortNameMap_CaseSensitive(g, name_lower) ==
    \E k \in 1..Len(g.port_definitions) : g.port_definitions[k].name = name_lower

\* name_lower in self.port_name_map
InPortNameMap(g, name_lower) ==
    \E k \in 1..Len(g.port_definitions) : Lower(g.port_definitions[k].name) = name_lower

\* self.port_name_map[name_lower]: the dict comprehension keeps the last port
\* of each lower-cased name
PortNameMap(g, name_lower) ==
    LET ks == { k \in 1..Len(g.port_definitions) :
                    Lower(g.port_definitions[k].name) = name_lower }
    IN g.port_definitions[CHOOSE k \in ks : \A j \in ks : j <= k]

RECURSIVE InternalByPattern(_, _)
InternalByPattern(signal, k) ==
    IF k > Len(INTERNAL_SIGNAL_PATTERNS)
    THEN Contains(Lower(signal.scope), <<"i", "n", "t", "e", "r", "n", "a", "l">>)
    ELSE IF signal.name = INTERNAL_SIGNAL_PATTERNS[k]
            \/ StartsWith(signal.name, INTERNAL_SIGNAL_PATTERNS[k] \o <<"_">>)
         THEN Lower(signal.name) \notin { <<"c", "n", "t">>,
                                          <<"c", "o", "u", "n", "t">>,
                                          <<"c", "o", "u", "n", "t", "e", "r">> }
         ELSE InternalByPattern(signal, k + 1)

_is_internal_signal(g, signal) ==
    IF g.io_port_names # {}
    THEN Lower(signal.name) \notin g.io_port_names
    ELSE IF Len(signal.name) = 1
            /\ Contains(<<"i", "j", "k", "l", "m", "n">>, signal.name)
         THEN TRUE
         ELSE InternalByPattern(signal, 1)

_get_display_name(g, signal) ==
    IF InPortNameMap(g, Lower(signal.name))
    THEN get_full_name(PortNameMap(g, Lower(signal.name)))
    ELSE signal.name

\* Comparison of the sort keys (tuples of two ints and a string)
KeyLess(x, y) ==
    \/ x.a < y.a
    \/ x.a = y.a /\ x.b < y.b
    \/ x.a = y.a /\ x.b = y.b /\ StrLess(x.s, y.s)

\* sorted(signals, key=...): Python's sort is stable
RECURSIVE InsertByKey(_, _, _, _)
InsertByKey(sorted, keys, item, key) ==
    IF sorted = <<>> THEN << item >>
    ELSE IF KeyLess(key, keys[1]) THEN << item >> \o sorted
    ELSE << sorted[1] >> \o InsertByKey(Tail(sorted), Tail(keys), item, key)

RECURSIVE SortedByKey(_, _, _, _)
SortedByKey(items, keys, doneItems, doneKeys) ==
    IF items = <<>> THEN doneItems
    ELSE SortedByKey(Tail(items), Tail(keys),
                     InsertByKey(doneItems, doneKeys, items[1], keys[1]),
                     InsertByKey(doneKeys, doneKeys, keys[1], keys[1]))

\* port_order = {p.name.lower(): i ...}: a later port of the same name wins
order_key(g, sig) ==
    LET ks == { k \in 1..Len(g.port_definitions) :
                    Lower(g.port_definitions[k].name) = Lower(sig.name) }
    IN IF ks = {} THEN 999
       ELSE (CHOOSE k \in ks : \A j \in ks : j <= k) - 1

_sort_by_port_order(g, sigs) ==
    IF g.port_definitions = <<>> THEN sigs
    ELSE SortedByKey(sigs,
                     [k \in 1..Len(sigs) |-> [a |-> order_key(g, sigs[k]), b |-> 0, s |-> <<>>]],
                     <<>>, <<>>)

GroupMatch(name_lower, pattern) ==
    pattern = name_lower \/ StartsWith(name_lower, pattern) \/ EndsWith(name_lower, pattern)

RECURSIVE GroupKeyFrom(_, _, _, _)
GroupKeyFrom(name, name_lower, g_idx, p_idx) ==
    IF g_idx > Len(SIGNAL_GROUPS)
    THEN [a |-> Len(SIGNAL_GROUPS), b |-> 0, s |-> name]
    ELSE IF p_idx > Len(SIGNAL_GROUPS[g_idx])
    THEN GroupKeyFrom(name, name_lower, g_idx + 1, 1)
    ELSE IF GroupMatch(name_lower, SIGNAL_GROUPS[g_idx][p_idx])
    THEN [a |-> g_idx - 1, b |-> p_idx - 1, s |-> name]
    ELSE GroupKeyFrom(name, name_lower, g_idx, p_idx + 1)

group_key(sig) == GroupKeyFrom(sig.name, Lower(sig.name), 1, 1)

_sort_signals_by_group(sigs) ==
    SortedByKey(sigs, [k \in 1..Len(sigs) |-> group_key(sigs[k])], <<>>, <<>>)

\* mutant: the change at time 0 counts as a transition
RECURSIVE Transitions_FromZero(_)
Transitions_FromZero(values) ==
    IF values = <<>> THEN <<>>
    ELSE << values[1].t >> \o Transitions_FromZero(Tail(values))

\* transitions = [t for t, _ in signal.values if t > 0]
RECURSIVE Transitions(_)
Transitions(values) ==
    IF values = <<>> THEN <<>>
    ELSE (IF values[1].t > 0 THEN << values[1].t >> ELSE <<>>) \o Transitions(Tail(values))

\* mutant: the largest gap instead of the smallest
MinPeriod_Largest(tr) ==
    LET gaps == { tr[k + 1] - tr[k] : k \in 1..(Len(tr) - 1) }
    IN CHOOSE m \in gaps : \A n \in gaps : m >= n

\* min(transitions[i+1] - transitions[i] for i in range(len(transitions)-1))
MinPeriod(tr) ==
    LET gaps == { tr[k + 1] - tr[k] : k \in 1..(Len(tr) - 1) }
    IN CHOOSE m \in gaps : \A n \in gaps : m <= n

\* the test of _calculate_time_step for a clock candidate
IsClockForStep(signal) == Contains(Lower(signal.name), <<"c", "l", "k">>)

RECURSIVE ClockPeriodFrom(_, _, _)
ClockPeriodFrom(sigs, k, fallback) ==
    IF k > Len(sigs) THEN fallback
    ELSE IF IsClockForStep(sigs[k]) /\ sigs[k].values # <<>>
            /\ Len(Transitions(sigs[k].values)) >= 2
            /\ MinPeriod(Transitions(sigs[k].values)) > 0
         THEN MinPeriod(Transitions(sigs[k].values))
         ELSE ClockPeriodFrom(sigs, k + 1, fallback)

_calculate_time_step(g, data) ==
    IF data.end_time = 0 THEN 1
    ELSE ClockPeriodFrom(data.signals, 1, Max(1, data.end_time \div g.max_time_steps))

\* num_steps of _generate_wave_entry
NumSteps(g, time_step, endTime) ==
    Min(g.max_time_steps, Max(1, endTime \div time_step))

\* mutant: the clock special case recognises 'clk' only
IsClockForWave_ClkOnly(signal) == Contains(Lower(signal.name), <<"c", "l", "k">>)

\* the test of _generate_single_bit_wave for the clock special case
IsClockForWave(signal) ==
    \/ Contains(Lower(signal.name), <<"c", "l", "k">>)
    \/ Contains(Lower(signal.name), <<"c", "l", "o", "c", "k">>)

\* the character one loop iteration appends to a single-bit wave
SingleBitChar(value, last_value) ==
    IF value = last_value THEN "."
    ELSE IF value = <<"1">> THEN "1"
    ELSE IF value = <<"0">> THEN "0"
    ELSE IF value \in { <<"x">>, <<"X">> } THEN "x"
    ELSE IF value \in { <<"z">>, <<"Z">> } THEN "z"
    ELSE "x"

\* mutant: the clock wave one character too long
ClockWave_OffByOne(num_steps) == <<"p">> \o Repeat(".", num_steps)

\* wave = 'p' + '.' * (num_steps - 1)
ClockWave(num_steps) == <<"p">> \o Repeat(".", num_steps - 1)

RECURSIVE SingleBitLoop(_, _, _, _, _, _)
SingleBitLoop(signal, time_step, num_steps, step, wave, last_value) ==
    IF step >= num_steps THEN wave
    ELSE LET value == get_value_at(signal, step * time_step)
         IN IF IsClockForWave(signal) /\ step > 0 /\ step = 1
            THEN ClockWave(num_steps)
            ELSE SingleBitLoop(signal, time_step, num_steps, step + 1,
                               Append(wave, SingleBitChar(value, last_value)), value)

_generate_single_bit_wave(g, signal, time_step, num_steps) ==
    [ name    |-> _get_display_name(g, signal),
      wave    |-> SingleBitLoop(signal, time_step, num_steps, 0, <<>>, NoneValue),
      hasData |-> FALSE,
      data    |-> <<>> ]

\* mutant: the z test comes before the x test
MultiBitChar_ZBeforeX(value, last_value) ==
    IF value = last_value THEN "."
    ELSE IF Contains(Lower(value), <<"z">>) THEN "z"
    ELSE IF Contains(Lower(value), <<"x">>) THEN "x"
    ELSE "="

\* the character one loop iteration appends to a multi-bit wave
MultiBitChar(value, last_value) ==
    IF value = last_value THEN "."
    ELSE IF Contains(Lower(value), <<"x">>) THEN "x"
    ELSE IF Contains(Lower(value), <<"z">>) THEN "z"
    ELSE "="

\* the entry appended to data with an '=': hex of the binary value, or the
\* first 8 characters when int(value, 2) raises ValueError
DataEntry(value) ==
    IF IsBinary(value) THEN FormatHex(BinToInt(value))
    ELSE SubSeq(value, 1, Min(8, Len(value)))

RECURSIVE MultiBitLoop(_, _, _, _, _, _, _)
MultiBitLoop(signal, time_step, num_steps, step, wave, data, last_value) ==
    IF step >= num_steps THEN [wave |-> wave, data |-> data]
    ELSE LET value == get_value_at(signal, step * time_step)
             ch    == MultiBitChar(value, last_value)
         IN MultiBitLoop(signal, time_step, num_steps, step + 1,
                         Append(wave, ch),
                         IF ch = "=" THEN Append(data, DataEntry(value)) ELSE data,
                         value)

\* mutant: the data key is set even when no value was appended
_generate_multi_bit_wave_AlwaysData(g, signal, time_step, num_steps) ==
    LET r == MultiBitLoop(signal, time_step, num_steps, 0, <<>>, <<>>, NoneValue)
    IN [ name    |-> _get_display_name(g, signal),
         wave    |-> r.wave,
         hasData |-> TRUE,
         data    |-> r.data ]


_generate_multi_bit_wave(g, signal, time_step, num_steps) ==
    LET r == MultiBitLoop(signal, time_step, num_steps, 0, <<>>, <<>>, NoneValue)
    IN [ name    |-> _get_display_name(g, signal),
         wave    |-> r.wave,
         hasData |-> r.data # <<>>,
         data    |-> r.data ]

\* _generate_wave_entry, for a signal with at least one recorded change
_generate_wave_entry(g, signal, time_step, endTime) ==
    IF signal.width = 1
    THEN _generate_single_bit_wave(g, signal, time_step, NumSteps(g, time_step, endTime))
    ELSE _generate_multi_bit_wave(g, signal, time_step, NumSteps(g, time_step, endTime))

\* [s for s in signals_list if not self._is_internal_signal(s)]
RECURSIVE FilterInternal(_, _)
FilterInternal(g, sigs) ==
    IF sigs = <<>> THEN <<>>
    ELSE (IF _is_internal_signal(g, sigs[1]) THEN <<>> ELSE << sigs[1] >>)
         \o FilterInternal(g, Tail(sigs))

\* mutant: the list is not cut
SliceTo_NoLimit(seq, n) == seq

\* sorted_signals[:self.max_signals], negative bounds counting from the end
SliceTo(seq, n) ==
    IF n >= 0 THEN SubSeq(seq, 1, Min(n, Len(seq)))
    ELSE SubSeq(seq, 1, Len(seq) + n)

\* mutant: a signal without a recorded change is rendered too
RECURSIVE WaveEntries_RenderEmpty(_, _, _, _)
WaveEntries_RenderEmpty(g, sigs, time_step, endTime) ==
    IF sigs = <<>> THEN <<>>
    ELSE << _generate_wave_entry(g, sigs[1], time_step, endTime) >>
         \o WaveEntries_RenderEmpty(g, Tail(sigs), time_step, endTime)

\* the loop of generate() over signals_to_show, lines 347-351: no entry for a
\* signal for which _generate_wave_entry returns None
RECURSIVE WaveEntries(_, _, _, _)
WaveEntries(g, sigs, time_step, endTime) ==
    IF sigs = <<>> THEN <<>>
    ELSE (IF sigs[1].values = <<>> THEN <<>>
          ELSE << _generate_wave_entry(g, sigs[1], time_step, endTime) >>)
         \o WaveEntries(g, Tail(sigs), time_step, endTime)

MkDoc(entries) ==
    [ signal |-> entries, config |-> WAVEDROM_CONFIG,
      head |-> WAVEDROM_HEAD, foot |-> WAVEDROM_FOOT ]

\* the generator after generate(vcd_data, io_port_names): self.io_port_names
\* is overwritten when the argument is non-empty and the log has signals
GeneratorAfter(g, data, io_port_names) ==
    IF data.signals # <<>> /\ io_port_names # <<>>
    THEN [g EXCEPT !.io_port_names = LowerNameSet(io_port_names)]
    ELSE g

\* the signals generate() keeps, in the order it emits them
SignalsToShow(g, data) ==
    LET filtered == IF g.io_ports_only THEN FilterInternal(g, data.signals)
                    ELSE data.signals
        sorted   == IF g.use_vcd_order THEN filtered
                    ELSE IF g.use_port_order /\ g.port_definitions # <<>>
                         THEN _sort_by_port_order(g, filtered)
                         ELSE _sort_signals_by_group(filtered)
    IN SliceTo(sorted, g.max_signals)

\* the document returned by generate(vcd_data, io_port_names)
generate(g, data, io_port_names) ==
    IF data.signals = <<>> THEN MkDoc(<<>>)
    ELSE LET g2 == GeneratorAfter(g, data, io_port_names)
         IN MkDoc(WaveEntries(g2, SignalsToShow(g2, data),
                              _calculate_time_step(g2, data), data.end_time))

-----------------------------------------------------------------------------
(* VCDParser                                                               *)
(* A line of the text is a record of what the parser's tests read in it:   *)
(*   k      which prefix test it passes ("timescale", "scope", "upscope",  *)
(*          "var", "enddefinitions", "command" for any other '$' line,     *)
(*          "time" for '#', "vector" for 'b'/'B', "scalar" for a leading   *)
(*          0/1/x/z of a line of length >= 2, "blank", "other")            *)
(*   ok     whether the directive's regular expression / int() accepts it  *)
(*   w, id, name   width, short identifier and leaf name of a $var,        *)
(*          name token of a $scope, identifier of a value record           *)
(*   bits   the value digits of a value record                             *)
(*   sep    whether whitespace separates the digits from the identifier    *)
(*   t      the integer of a timestamp                                     *)
(*   hasEnd whether the line contains '$end'                               *)
(*   tok    the digits+unit token _parse_timescale finds in it, if any     *)

DefaultTimescale == <<"1", "n", "s">>

Ln(k, ok, w, id, name, bits, sep, t, hasEnd, tok) ==
    [k |-> k, ok |-> ok, w |-> w, id |-> id, name |-> name, bits |-> bits,
     sep |-> sep, t |-> t, hasEnd |-> hasEnd, tok |-> tok]

L_timescale(tok, hasEnd) == Ln("timescale", TRUE, 0, <<>>, <<>>, <<>>, TRUE, 0, hasEnd, tok)

L_scope(name) == Ln("scope", TRUE, 0, <<>>, name, <<>>, TRUE, 0, TRUE, <<>>)

L_upscope == Ln("upscope", TRUE, 0, <<>>, <<>>, <<>>, TRUE, 0, TRUE, <<>>)

L_var(w, id, name) == Ln("var", TRUE, w, id, name, <<>>, TRUE, 0, TRUE, <<>>)

L_enddefinitions == Ln("enddefinitions", TRUE, 0, <<>>, <<>>, <<>>, TRUE, 0, TRUE, <<>>)

L_command(hasEnd) == Ln("command", TRUE, 0, <<>>, <<>>, <<>>, TRUE, 0, hasEnd, <<>>)

L_time(t) == Ln("time", TRUE, 0, <<>>, <<>>, <<>>, TRUE, t, FALSE, <<>>)

\* a '#' line whose rest is not an integer, such as "#0 0! b00000000#"
L_badtime == Ln("time", FALSE, 0, <<>>, <<>>, <<>>, TRUE, 0, FALSE, <<>>)

L_vector(bits, sep, id) == Ln("vector", TRUE, 0, id, <<>>, bits, sep, 0, FALSE, <<>>)

L_scalar(bit, id) == Ln("scalar", TRUE, 0, id, <<>>, <<bit>>, FALSE, 0, FALSE, <<>>)

L_blank == Ln("blank", TRUE, 0, <<>>, <<>>, <<>>, TRUE, 0, FALSE, <<>>)

\* dict[key] = obj on an insertion-ordered dict: a known key keeps its place
DictHas(d, key) == \E k \in 1..Len(d) : d[k].key = key

DictGet(d, key) == d[CHOOSE k \in 1..Len(d) : d[k].key = key].obj

DictSet(d, key, obj) ==
    IF DictHas(d, key)
    THEN [k \in 1..Len(d) |-> IF d[k].key = key THEN [key |-> key, obj |-> obj] ELSE d[k]]
    ELSE Append(d, [key |-> key, obj |-> obj])

\* list(self.signals.values()), each reference replaced by its object
DictValues(d, heapObjs) == [k \in 1..Len(d) |-> heapObjs[d[k].obj]]

\* _parse_timescale: the index of the first line from `start` on that
\* contains '$end' (len(lines) when there is none)
TimescaleEnd(ls, start) ==
    IF \E j \in start..Len(ls) : ls[j].hasEnd
    THEN CHOOSE j \in start..Len(ls) : ls[j].hasEnd /\ \A m \in start..(j - 1) : ~ls[m].hasEnd
    ELSE Len(ls) + 1

\* ... and the token found in the joined lines, "1ns" when there is none
TimescaleValue(ls, start) ==
    LET stop == Min(TimescaleEnd(ls, start), Len(ls))
        withTok == { j \in start..stop : ls[j].tok # <<>> }
    IN IF withTok = {} THEN DefaultTimescale
       ELSE ls[CHOOSE j \in withTok : \A m \in withTok : j <= m].tok

\* a character of the class \w
IsWordChar(c) ==
    \/ c = "_"
    \/ \E k \in 1..Len(LowerChars) : LowerChars[k] = c \/ UpperChars[k] = c
    \/ \E k \in 1..Len(Digits) : Digits[k] = c

\* group 2 of re.match(r'\$scope\s+(\w+)\s+(\w+)', line) for a line whose
\* second token is `name`: its longest prefix of word characters; the
\* expression does not match (written <<>>) when that prefix is empty
RECURSIVE ScopeMatch(_)
ScopeMatch(name) ==
    IF name = <<>> \/ ~IsWordChar(name[1]) THEN <<>>
    ELSE << name[1] >> \o ScopeMatch(Tail(name))

\* parse(), lines 58-64: the fields are reset, self.timescale is not
ParseBegin(text) ==
    /\ pc \in {"idle", "parsed"}
    /\ lines' = text
    /\ line_idx' = 1
    /\ pc' = "header"
    /\ objs' = <<>>
    /\ signals' = <<>>
    /\ id_to_signal' = <<>>
    /\ current_scope' = <<>>
    /\ end_time' = 0
    /\ current_time' = 0
    /\ UNCHANGED <<timescale, parse_log, encoderVars, reorderVars, pipelineVars>>

\* _parse_var on a line the regular expression accepts
ParseVar(line) ==
    LET scope     == JoinDot(current_scope)
        full_name == IF scope # <<>> THEN scope \o <<".">> \o line.name ELSE line.name
        signal    == [id |-> line.id, name |-> line.name, width |-> line.w,
                      scope |-> scope, values |-> <<>>]
    IN /\ objs' = Append(objs, signal)
       /\ signals' = DictSet(signals, full_name, Len(objs) + 1)
       /\ id_to_signal' = DictSet(id_to_signal, line.id, Len(objs) + 1)

\* one iteration of the header loop, lines 67-85
HeaderStep ==
    /\ pc = "header"
    /\ line_idx <= Len(lines)
    /\ LET line == lines[line_idx] IN
       \/ /\ line.k = "timescale"
          /\ timescale' = TimescaleValue(lines, line_idx)
          /\ line_idx' = TimescaleEnd(lines, line_idx) + 1
          /\ UNCHANGED <<pc, objs, signals, id_to_signal, current_scope>>
       \/ /\ line.k = "scope"
          /\ current_scope' = IF line.ok /\ ScopeMatch(line.name) # <<>>
                              THEN Append(current_scope, ScopeMatch(line.name))
                              ELSE current_scope
          /\ line_idx' = line_idx + 1
          /\ UNCHANGED <<pc, objs, signals, id_to_signal, timescale>>
       \/ /\ line.k = "upscope"
          /\ current_scope' = IF current_scope # <<>>
                              THEN SubSeq(current_scope, 1, Len(current_scope) - 1)
                              ELSE current_scope
          /\ line_idx' = line_idx + 1
          /\ UNCHANGED <<pc, objs, signals, id_to_signal, timescale>>
       \/ /\ line.k = "var"
          /\ IF line.ok THEN ParseVar(line)
             ELSE UNCHANGED <<objs, signals, id_to_signal>>
          /\ line_idx' = line_idx + 1
          /\ UNCHANGED <<pc, current_scope, timescale>>
       \/ /\ line.k = "enddefinitions"
          /\ line_idx' = line_idx + 1
          /\ pc' = "values"
          /\ UNCHANGED <<objs, signals, id_to_signal, current_scope, timescale>>
       \/ /\ line.k \notin {"timescale", "scope", "upscope", "var", "enddefinitions"}
          /\ line_idx' = line_idx + 1
          /\ UNCHANGED <<pc, objs, signals, id_to_signal, current_scope, timescale>>
    /\ UNCHANGED <<lines, end_time, current_time, parse_log, encoderVars, reorderVars,
                   pipelineVars>>

\* the header loop runs off the end of the text: no $enddefinitions was found
HeaderExhausted ==
    /\ pc = "header"
    /\ line_idx > Len(lines)
    /\ pc' = "values"
    /\ UNCHANGED <<lines, line_idx, objs, signals, id_to_signal, current_scope,
                   timescale, end_time, current_time, parse_log, encoderVars,
                   reorderVars, pipelineVars>>

\* _record_value: the heap after appending (time, value.lower())
RecordValue(heapObjs, sig_id, time, value) ==
    IF DictHas(id_to_signal, sig_id)
    THEN [heapObjs EXCEPT ![DictGet(id_to_signal, sig_id)].values =
              Append(@, [t |-> time, v |-> Lower(value)])]
    ELSE heapObjs

\* one iteration of the value-change loop, lines 89-118
ValueStep ==
    /\ pc = "values"
    /\ line_idx <= Len(lines)
    /\ LET line == lines[line_idx] IN
       \/ /\ line.k = "time"
          /\ current_time' = IF line.ok THEN line.t ELSE current_time
          /\ end_time' = IF line.ok THEN Max(end_time, line.t) ELSE end_time
          /\ UNCHANGED objs
       \/ /\ line.k = "vector"
          /\ objs' = IF line.sep /\ line.bits # <<>> /\ line.id # <<>>
                     THEN RecordValue(objs, line.id, current_time, line.bits)
                     ELSE objs
          /\ UNCHANGED <<current_time, end_time>>
       \/ /\ line.k = "scalar"
          /\ objs' = RecordValue(objs, line.id, current_time, line.bits)
          /\ UNCHANGED <<current_time, end_time>>
       \/ /\ line.k \notin {"time", "vector", "scalar"}
          /\ UNCHANGED <<objs, current_time, end_time>>
    /\ line_idx' = line_idx + 1
    /\ UNCHANGED <<lines, pc, signals, id_to_signal, current_scope, timescale,
                   parse_log, encoderVars, reorderVars, pipelineVars>>

\* return VCDData(...), lines 120-124
ParseReturn ==
    /\ pc = "values"
    /\ line_idx > Len(lines)
    /\ pc' = "parsed"
    /\ vcd_data' = [timescale |-> timescale,
                    signals   |-> DictValues(signals, objs),
                    end_time  |-> end_time]
    /\ parse_log' = Append(parse_log, [text |-> lines, log |-> vcd_data'])
    /\ UNCHANGED <<parserVars_but_pc, gen, gen_built, generate_args, doc, reorderVars,
                   pipelineVars>>

-----------------------------------------------------------------------------
(* signal_order_extractor: fuzzy_match_score, reorder_wavedrom_signals     *)
(* A score is the exact fraction n/d of the float the code computes.       *)

Score(n, d) == [n |-> n, d |-> d]

ScoreGreater(x, y) == x.n * y.d > y.n * x.d

ScoreEqual(x, y) == x.n * y.d = y.n * x.d

\* best_match_score = 0.4, the minimum threshold of reorder_wavedrom_signals
Threshold == Score(4, 10)

normalize_ocr_chars(text) ==
    ReplaceChar(ReplaceChar(ReplaceChar(Lower(text), "l", "i"), "1", "i"), "0", "o")

\* re.sub(r'\[.*\]', '', s): the greedy match runs from the first '[' to the
\* last ']' after it
StripRange(str) ==
    LET opens  == { k \in 1..Len(str) : str[k] = "[" }
        closes == { k \in 1..Len(str) : str[k] = "]" }
    IN IF opens = {} \/ closes = {} THEN str
       ELSE LET first == CHOOSE k \in opens : \A j \in opens : k <= j
                last  == CHOOSE k \in closes : \A j \in closes : j <= k
            IN IF last < first THEN str
               ELSE SubSeq(str, 1, first - 1) \o SubSeq(str, last + 1, Len(str))

ConfusableGroups == { {"i", "l", "1"}, {"o", "0", "a"} }

KnownPrefixes ==
    << <<"o", "u", "t", "_">>, <<"i", "n", "_">>, <<"o", "_">>, <<"i", "_">>,
       <<"p", "r", "e", "v", "_">> >>

\* matches: equal characters at equal positions
PositionMatches(a, b) ==
    Cardinality({ k \in 1..Min(Len(a), Len(b)) : a[k] = b[k] })

\* common_chars: each character of sig_base is consumed at most once
RECURSIVE RemoveFirst(_, _)
RemoveFirst(chars, c) ==
    IF chars = <<>> THEN <<>>
    ELSE IF chars[1] = c THEN Tail(chars)
    ELSE << chars[1] >> \o RemoveFirst(Tail(chars), c)

RECURSIVE CommonChars(_, _)
CommonChars(ocr_base, sig_chars) ==
    IF ocr_base = <<>> THEN 0
    ELSE IF \E k \in 1..Len(sig_chars) : sig_chars[k] = ocr_base[1]
         THEN 1 + CommonChars(Tail(ocr_base), RemoveFirst(sig_chars, ocr_base[1]))
         ELSE CommonChars(Tail(ocr_base), sig_chars)

\* prefix_len: length of the common literal prefix
RECURSIVE PrefixLen(_, _)
PrefixLen(a, b) ==
    IF a = <<>> \/ b = <<>> THEN 0
    ELSE IF a[1] = b[1] THEN 1 + PrefixLen(Tail(a), Tail(b))
    ELSE 0

\* lines 954-989: 0.6 * matches/max_len + 0.4 * common/max_len
\* (+ 0.15 * prefix_len/max_len when prefix_len >= 2), capped at 0.85
BlendScore(ocr_base, sig_base) ==
    LET max_len == Max(Len(ocr_base), Len(sig_base))
        pre     == PrefixLen(ocr_base, sig_base)
        num     == 60 * PositionMatches(ocr_base, sig_base)
                   + 40 * CommonChars(ocr_base, sig_base)
                   + (IF pre >= 2 THEN 15 * pre ELSE 0)
    IN IF max_len = 0 THEN Score(0, 1)
       ELSE IF num * 100 > 85 * (100 * max_len) THEN Score(85, 100)
       ELSE Score(num, 100 * max_len)

\* mutant: no known prefix is recognised
PrefixRule_Never(ocr_base, sig_base) == FALSE

\* lines 937-941: sig_base is a known prefix followed by ocr_base
PrefixRule(ocr_base, sig_base) ==
    \E k \in 1..Len(KnownPrefixes) :
        /\ StartsWith(sig_base, KnownPrefixes[k])
        /\ ocr_base = SubSeq(sig_base, Len(KnownPrefixes[k]) + 1, Len(sig_base))

fuzzy_match_score(ocr_name, signal_name) ==
    LET ocr_lower == Lower(ocr_name)
        sig_lower == Lower(signal_name)
        ocr_base  == StripRange(ocr_lower)
        sig_base  == StripRange(sig_lower)
    IN IF ocr_lower = sig_lower THEN Score(100, 100)
       ELSE IF normalize_ocr_chars(ocr_lower) = normalize_ocr_chars(sig_lower)
       THEN Score(98, 100)
       ELSE IF Len(ocr_lower) = 1 /\ Len(sig_lower) = 1
               /\ \E grp \in ConfusableGroups : ocr_lower[1] \in grp /\ sig_lower[1] \in grp
       THEN Score(95, 100)
       ELSE IF ocr_base = sig_base THEN Score(95, 100)
       ELSE IF PrefixRule(ocr_base, sig_base) THEN Score(90, 100)
       ELSE IF EndsWith(sig_base, ocr_base) /\ Len(ocr_base) >= 3 THEN Score(85, 100)
       ELSE IF Len(ocr_base) >= 3 /\ Len(sig_base) >= 3 /\ Contains(sig_base, ocr_base)
       THEN Score(80 * Len(ocr_base), 100 * Len(sig_base))
       ELSE IF Len(ocr_base) >= 3 /\ Len(sig_base) >= 3 /\ Contains(ocr_base, sig_base)
       THEN Score(80 * Len(sig_base), 100 * Len(ocr_base))
       ELSE BlendScore(ocr_base, sig_base)

\* mutant: `>=` instead of `>` in the inner loop
Improves_OrEqual(score, best_match_score) == ~ScoreGreater(best_match_score, score)

\* `if score > best_match_score` of the inner loop
Improves(score, best_match_score) == ScoreGreater(score, best_match_score)

\* the inner loop, lines 1033-1042: best_match_idx after scanning the
\* candidates from idx on (0 stands for None)
RECURSIVE BestMatchFrom(_, _, _, _, _, _)
BestMatchFrom(ref_name, entries, used, idx, best_match_idx, best_match_score) ==
    IF idx > Len(entries) THEN best_match_idx
    ELSE IF idx \in used
    THEN BestMatchFrom(ref_name, entries, used, idx + 1, best_match_idx, best_match_score)
    ELSE LET score == fuzzy_match_score(ref_name, entries[idx].name)
         IN IF Improves(score, best_match_score)
            THEN BestMatchFrom(ref_name, entries, used, idx + 1, idx, score)
            ELSE BestMatchFrom(ref_name, entries, used, idx + 1,
                               best_match_idx, best_match_score)

\* mutant: the inner loop does not skip the used candidates
BestMatch_IgnoreUsed(ref_name, entries, used) ==
    BestMatchFrom(ref_name, entries, {}, 1, 0, Threshold)


BestMatch(ref_name, entries, used) ==
    BestMatchFrom(ref_name, entries, used, 1, 0, Threshold)

\* mutant: the leftover loop does not test used_indices
RECURSIVE Leftovers_All(_, _, _)
Leftovers_All(n, used, idx) ==
    IF idx > n THEN <<>> ELSE << idx >> \o Leftovers_All(n, used, idx + 1)

\* lines 1049-1052: the entries not in used_indices, in document order
RECURSIVE Leftovers(_, _, _)
Leftovers(n, used, idx) ==
    IF idx > n THEN <<>>
    ELSE (IF idx \in used THEN <<>> ELSE << idx >>) \o Leftovers(n, used, idx + 1)

\* mutant: the leftovers are appended whatever filter_to_reference is
FinalOrder_NoFilter(matched, n, used, filter) == matched \o Leftovers(n, used, 1)

\* the list `reordered` when the function returns
FinalOrder(matched, n, used, filter) ==
    IF filter THEN matched ELSE matched \o Leftovers(n, used, 1)

\* mutant: result = wavedrom_dict without .copy(), so the assignment to
\* result['signal'] writes into the caller's dict
HeapAfterReturn_NoCopy(hp, order) ==
    LET written == [hp[1] EXCEPT !.signal = [k \in 1..Len(order) |-> hp[1].signal[order[k]]]]
    IN Append([hp EXCEPT ![1] = written], written)

\* result = wavedrom_dict.copy(); result['signal'] = reordered: the heap
\* after the call, the input dict being object 1
HeapAfterReturn(hp, order) ==
    Append(hp, [hp[1] EXCEPT !.signal = [k \in 1..Len(order) |-> hp[1].signal[order[k]]]])

\* lines 1010-1012 and the set-up of the loops
ReorderBegin(ref, filter) ==
    /\ rpc = "idle"
    /\ reference_order' = ref
    /\ filter_to_reference' = filter
    /\ reordered' = <<>>
    /\ used_indices' = {}
    /\ ref_idx' = 1
    /\ IF heap[1].signal = <<>> \/ ref = <<>>
       THEN rpc' = "done" /\ result' = 1
       ELSE rpc' = "match" /\ result' = 0
    /\ UNCHANGED <<heap, fuzzy_args, fuzzy_result, parserVars, encoderVars, pipelineVars>>

\* one iteration of `for ref_name in reference_order`, lines 1029-1046
MatchRef ==
    /\ rpc = "match"
    /\ ref_idx <= Len(reference_order)
    /\ LET best == BestMatch(reference_order[ref_idx], heap[1].signal, used_indices)
       IN IF best # 0
          THEN /\ reordered' = Append(reordered, best)
               /\ used_indices' = used_indices \cup {best}
          ELSE UNCHANGED <<reordered, used_indices>>
    /\ ref_idx' = ref_idx + 1
    /\ UNCHANGED <<heap, reference_order, filter_to_reference, rpc, result,
                   fuzzy_args, fuzzy_result, parserVars, encoderVars, pipelineVars>>

\* lines 1048-1057: append the leftovers, copy the dict, return
ReorderReturn ==
    /\ rpc = "match"
    /\ ref_idx > Len(reference_order)
    /\ reordered' = FinalOrder(reordered, Len(heap[1].signal), used_indices,
                               filter_to_reference)
    /\ heap' = HeapAfterReturn(heap, reordered')
    /\ result' = Len(heap) + 1
    /\ rpc' = "done"
    /\ UNCHANGED <<reference_order, filter_to_reference, ref_idx, used_indices,
                   fuzzy_args, fuzzy_result, parserVars, encoderVars, pipelineVars>>

-----------------------------------------------------------------------------
(* Bounds and input pools                                                  *)

\* largest time of a recorded change
MaxTime == 2

\* largest end_time of an event log
MaxEndTime == 5

n_clk == <<"c", "l", "k">>

n_Clock == <<"C", "l", "o", "c", "k">>

n_d == <<"d">>

n_count == <<"c", "o", "u", "n", "t">>

ScalarValues == { <<"0">>, <<"1">>, <<"x">>, <<"z">> }

\* bit-strings of vector records; the last one renders as the hex letter B
VectorValues ==
    { <<"1", "0">>, <<"1", "1">>, <<"1", "z">>, <<"z", "x">>, <<"1", "0", "1", "1">> }

Change(t, v) == [t |-> t, v |-> v]

ChangesOf(valueSet) == { Change(t, v) : t \in 0..MaxTime, v \in valueSet }

\* change lists of up to two changes, in any time order, plus three-change
\* lists with increasing times for the clock period
ChangeSeqs(valueSet) ==
    {<<>>} \cup { <<c>> : c \in ChangesOf(valueSet) }
           \cup { <<c1, c2>> : c1 \in ChangesOf(valueSet), c2 \in ChangesOf(valueSet) }

ToggleSeqs ==
    { << Change(t1, <<"0">>), Change(t2, <<"1">>), Change(t3, <<"0">>) >> :
        t1 \in 0..MaxTime, t2 \in 0..MaxTime, t3 \in {MaxTime, MaxEndTime} }

MkSignal(id, name, width, scope, values) ==
    [id |-> id, name |-> name, width |-> width, scope |-> scope, values |-> values]

\* change lists of at most one change, at time 0
SmallSeqs(valueSet) == {<<>>} \cup { << Change(0, v) >> : v \in valueSet }

\* single-bit signals also receive a vector record, multi-bit signals also a
\* scalar one: the parser binds records to signals by identifier only
SignalsOver(names1, names2, scalarSeqs, vectorSeqs) ==
    { MkSignal(<<"!">>, nm, 1, <<>>, vs) : nm \in names1, vs \in scalarSeqs }
    \cup
    { MkSignal(<<"!">>, nm, 2, <<>>, vs) : nm \in names2, vs \in vectorSeqs }

EncSignals ==
    SignalsOver({n_clk, n_d}, {n_count},
                ChangeSeqs(ScalarValues \cup {<<"1", "0">>}) \cup ToggleSeqs,
                ChangeSeqs(VectorValues \cup {<<"0">>, <<"x">>}))

SmallSignals ==
    SignalsOver({n_clk, n_Clock, n_d}, {n_clk, n_count},
                SmallSeqs(ScalarValues \cup {<<"1", "0">>}),
                SmallSeqs(VectorValues \cup {<<"0">>, <<"x">>}))

\* a second signal of a two-signal log
Companions ==
    { MkSignal(<<"#">>, n_clk, 1, <<>>, << Change(0, <<"0">>), Change(1, <<"1">>), Change(2, <<"0">>) >>),
      MkSignal(<<"#">>, n_count, 2, <<>>, << Change(0, <<"0", "1">>), Change(2, <<"1", "0">>) >>),
      MkSignal(<<"#">>, n_d, 1, <<>>, <<>>) }

n_clk2 == <<"c", "l", "k", "2">>

n_CLK == <<"C", "L", "K">>

n_q == <<"q">>

\* two clocks of different periods, declared in either order
TwoClockLists ==
    LET a == MkSignal(<<"!">>, n_clk, 1, <<>>,
                      << Change(1, <<"0">>), Change(2, <<"1">>), Change(3, <<"0">>) >>)
        b == MkSignal(<<"#">>, n_clk2, 1, <<>>,
                      << Change(0, <<"0">>), Change(2, <<"1">>), Change(4, <<"0">>) >>)
    IN { <<a, b>>, <<b, a>> }

\* a signal named Clock with the period 2
ClockWordLists ==
    { << MkSignal(<<"!">>, n_Clock, 1, <<>>,
                  << Change(0, <<"0">>), Change(1, <<"1">>), Change(3, <<"0">>) >>) >> }

SmallSignalLists ==
    { <<s>> : s \in SmallSignals }
    \cup ClockWordLists
    \cup { <<s, c>> : s \in SmallSignals, c \in Companions }
    \cup { <<c, s>> : s \in SmallSignals, c \in Companions }
    \cup TwoClockLists
    \cup { <<>> }

MaxChangeTime(sigs) ==
    LET ts == UNION { { sigs[k].values[j].t : j \in 1..Len(sigs[k].values) } : k \in 1..Len(sigs) }
    IN IF ts = {} THEN 0 ELSE CHOOSE m \in ts : \A n \in ts : n <= m

\* event logs as parse() builds them: end_time is the largest timestamp seen,
\* here the time of the last change or MaxEndTime
LogsOver(lists) ==
    { [timescale |-> DefaultTimescale, signals |-> pr[1], end_time |-> pr[2]] :
        pr \in UNION { { <<sigs, MaxChangeTime(sigs)>>, <<sigs, MaxEndTime>> } : sigs \in lists } }

p_clk == MkPort(n_clk, 1, FALSE, 0, FALSE, 0)

p_count == MkPort(n_count, 1, TRUE, 1, TRUE, 0)

p_d == MkPort(n_d, 1, TRUE, 0, TRUE, 0)

\* ports whose names differ from the signals' in letter case, a port with a
\* width and no declared range, and a port that shares its lower-cased name
\* with p_clk
p_CLOCK == MkPort(<<"C", "L", "O", "C", "K">>, 1, TRUE, 0, TRUE, 0)

p_d4 == MkPort(n_d, 4, FALSE, 0, FALSE, 0)

p_CLK3 == MkPort(n_CLK, 1, TRUE, 3, TRUE, 0)

\* constructor arguments the encoder is checked with:
\* max_signals, max_time_steps (0 = not given), io_ports_only, io_port_names,
\* port_definitions, use_port_order, use_vcd_order, match_original
MainGenerator == NewGenerator(0, 3, TRUE, <<>>, <<>>, TRUE, FALSE, FALSE)

EncGenerators ==
    { NewGenerator(0, 0, TRUE, <<>>, <<>>, TRUE, FALSE, FALSE),
      NewGenerator(0, 1, TRUE, <<>>, <<>>, TRUE, FALSE, FALSE),
      MainGenerator,
      NewGenerator(1, 3, FALSE, <<>>, <<>>, FALSE, TRUE, FALSE),
      NewGenerator(0, 3, TRUE, <<n_clk, n_count>>, <<p_count, p_d, p_clk>>, TRUE, FALSE, FALSE),
      NewGenerator(0, 2, FALSE, <<n_clk>>, <<p_count, p_clk>>, FALSE, FALSE, TRUE),
      NewGenerator(0, 3, FALSE, <<>>, <<p_CLOCK, p_d4, p_CLK3, p_clk>>, TRUE, FALSE, FALSE),
      NewGenerator(0, 3, FALSE, <<>>, <<p_clk, p_CLK3>>, FALSE, TRUE, FALSE) }

\* every change list with one generator, the short ones with every generator
EncInputs ==
    (LogsOver({ <<s>> : s \in EncSignals }) \X {MainGenerator})
    \cup (LogsOver(SmallSignalLists) \X EncGenerators)

\* the io_port_names argument of generate()
EncPortArgs == { <<>>, <<n_clk, n_d>> }

-----------------------------------------------------------------------------
(* Idle values of the parts a specification does not exercise              *)

NoDoc == MkDoc(<< [name |-> <<>>, wave |-> <<>>, hasData |-> FALSE, data |-> <<"none">>] >>)

EmptyLog == [timescale |-> DefaultTimescale, signals |-> <<>>, end_time |-> 0]

ParserInit ==
    /\ lines = <<>>
    /\ line_idx = 0
    /\ pc = "idle"
    /\ objs = <<>>
    /\ signals = <<>>
    /\ id_to_signal = <<>>
    /\ current_scope = <<>>
    /\ timescale = DefaultTimescale
    /\ end_time = 0
    /\ current_time = 0
    /\ parse_log = <<>>

ReorderIdle ==
    /\ heap = <<>>
    /\ reference_order = <<>>
    /\ filter_to_reference = TRUE
    /\ rpc = "idle"
    /\ ref_idx = 0
    /\ reordered = <<>>
    /\ used_indices = {}
    /\ result = 0
    /\ fuzzy_args = [ocr_name |-> <<>>, signal_name |-> <<>>]
    /\ fuzzy_result = <<>>

\* the value None of the tuple process() has not returned yet
NoReturn == [sample |-> <<>>, stage |-> "None", message |-> "None"]

\* SimulationResult(success, vcd_content, error_message), lines 18-25 of
\* simulation_runner.py; the defaults are empty strings
SimulationResult(success, vcd_content, error_message) ==
    [success |-> success, vcd_content |-> vcd_content, error_message |-> error_message]

NoSimulation == SimulationResult(FALSE, <<>>, "")

PipelineIdle ==
    /\ pipeline = [match_original |-> TRUE]
    /\ process_args = [verilog_code |-> [hasModule |-> FALSE, name |-> <<>>,
                                         header |-> <<>>, body |-> <<>>],
                       has_image |-> FALSE]
    /\ module = NoModule
    /\ sim_result = NoSimulation
    /\ ppc = "idle"
    /\ stages_run = <<>>
    /\ returned = NoReturn

-----------------------------------------------------------------------------
(* SpecEnc: WaveDromGenerator.generate on an event log                     *)

InitEnc ==
    /\ ParserInit
    /\ PipelineIdle
    /\ ReorderIdle
    /\ \E inp \in EncInputs : vcd_data = inp[1] /\ gen = inp[2] /\ gen_built = inp[2]
    /\ generate_args = <<>>
    /\ doc = NoDoc

\* generator.generate(vcd_data, io_port_names)
Generate(io_port_names) ==
    /\ doc' = generate(gen, vcd_data, io_port_names)
    /\ gen' = GeneratorAfter(gen, vcd_data, io_port_names)
    /\ generate_args' = io_port_names
    /\ UNCHANGED <<vcd_data, gen_built, parserVars, reorderVars, pipelineVars>>

NextEnc == \E names \in EncPortArgs : Generate(names)

SpecEnc == InitEnc /\ [][NextEnc]_vars

-----------------------------------------------------------------------------
(* SpecParse: vcd_to_wavedrom(vcd_content, io_port_names, port_definitions,*)
(* match_original) = VCDParser().parse, then WaveDromGenerator.generate    *)

\* longest generated value-change section, in lines
MaxBody == 4

id_bang == <<"!">>

id_hash == <<"#">>

p_count8 == MkPort(n_count, 1, TRUE, 7, TRUE, 0)

b00000000 == <<"0", "0", "0", "0", "0", "0", "0", "0">>

b00000001 == <<"0", "0", "0", "0", "0", "0", "0", "1">>

\* $var wire 1 ! clk $end / $var wire 8 # count [7:0] $end, changes
\* #0 0! b00000000 # / #5 1! / #15 b00000001 #
ExampleHeader == << L_var(1, id_bang, n_clk), L_var(8, id_hash, n_count) >>

ExampleBody(sep) ==
    << L_time(0), L_scalar("0", id_bang), L_vector(b00000000, sep, id_hash),
       L_time(5), L_scalar("1", id_bang),
       L_time(15), L_vector(b00000001, sep, id_hash) >>

ExampleText == ExampleHeader \o << L_enddefinitions >> \o ExampleBody(TRUE)

\* the same log with each change group written on its '#' line, without
\* whitespace before the identifiers, or without $enddefinitions
ExampleVariants ==
    { ExampleText,
      ExampleHeader \o << L_enddefinitions >> \o ExampleBody(FALSE),
      ExampleHeader \o ExampleBody(TRUE),
      ExampleHeader \o << L_enddefinitions, L_badtime, L_badtime, L_badtime >> }

ExamplePorts == << p_clk, p_count8 >>

BodyLines ==
    { L_time(0), L_time(2), L_scalar("0", id_bang), L_scalar("1", id_bang),
      L_vector(<<"1", "0">>, TRUE, id_hash) }

Bodies == UNION { [1..n -> BodyLines] : n \in 0..MaxBody }

ShortBodies ==
    { <<>>,
      << L_time(1), L_scalar("X", id_bang), L_vector(<<"Z", "1">>, TRUE, id_hash) >>,
      << L_scalar("1", id_hash), L_blank, L_command(TRUE), L_time(2), L_vector(<<"1">>, FALSE, id_bang) >> }

\* the scopes of a generate loop, as the simulator names them
n_g0 == <<"g", "[", "0", "]">>

n_g1 == <<"g", "[", "1", "]">>

\* headers with a timescale, nested scopes and more $upscope than $scope; with
\* a timescale that lacks $end; without $enddefinitions; with generate scopes
\* and a $scope that lacks its name; with scopes and declarations only; with
\* one net declared in two generate scopes
Headers ==
    { << L_timescale(<<"1", "0", "p", "s">>, TRUE), L_scope(<<"t", "b">>),
         L_var(1, id_bang, n_clk), L_scope(<<"d", "u", "t">>), L_var(1, id_bang, n_clk),
         L_upscope, L_upscope, L_upscope, L_var(2, id_hash, n_count), L_enddefinitions >>,
      << L_timescale(<<>>, FALSE), L_command(FALSE), L_command(TRUE),
         L_var(1, id_bang, n_d), L_var(2, id_bang, n_d), L_enddefinitions >>,
      << L_var(1, id_bang, n_clk) >>,
      << L_scope(<<"t", "b">>), L_scope(n_g0), L_var(1, id_bang, n_d), L_upscope,
         L_scope(n_g1), L_var(1, id_hash, n_d), L_upscope, L_scope(<<>>),
         L_var(2, id_hash, n_count), L_upscope, L_var(1, id_bang, n_clk),
         L_enddefinitions >>,
      << L_scope(<<"t", "b">>), L_var(1, id_bang, n_clk), L_scope(<<"d", "u", "t">>),
         L_var(1, id_hash, n_clk), L_upscope, L_upscope, L_upscope,
         L_var(2, id_hash, n_count), L_enddefinitions >>,
      << L_scope(<<"t", "b">>), L_scope(n_g0), L_var(1, id_bang, n_clk), L_upscope,
         L_scope(n_g1), L_var(1, id_bang, n_clk), L_upscope, L_upscope,
         L_enddefinitions >> }

ParseTexts ==
    { << L_var(1, id_bang, n_clk), L_var(2, id_hash, n_count), L_enddefinitions >> \o b :
        b \in Bodies }
    \cup { h \o b : h \in Headers, b \in ShortBodies }
    \cup ExampleVariants

\* the arguments io_port_names, port_definitions, match_original;
\* ports_given tells a port_definitions list from the default None
CallArgs ==
    { [io_port_names |-> <<>>, ports_given |-> FALSE, port_definitions |-> <<>>,
       match_original |-> FALSE],
      [io_port_names |-> <<n_clk, n_count>>, ports_given |-> TRUE,
       port_definitions |-> ExamplePorts, match_original |-> FALSE],
      [io_port_names |-> <<n_clk>>, ports_given |-> TRUE,
       port_definitions |-> ExamplePorts, match_original |-> TRUE],
      [io_port_names |-> <<n_q>>, ports_given |-> TRUE,
       port_definitions |-> << p_count, p_clk >>, match_original |-> TRUE],
      [io_port_names |-> <<>>, ports_given |-> FALSE, port_definitions |-> <<>>,
       match_original |-> TRUE] }

\* mutant: match_original is not handed to the generator
GeneratorOf_NoMatchOriginal(args) ==
    NewGenerator(0, 0, TRUE, args.io_port_names, args.port_definitions,
                 args.ports_given, FALSE, FALSE)

\* the generator vcd_to_wavedrom constructs, lines 531-537
GeneratorOf(args) ==
    NewGenerator(0, 0, ~args.match_original, args.io_port_names, args.port_definitions,
                 args.ports_given /\ ~args.match_original,
                 FALSE, args.match_original)

\* vcd_to_wavedrom, lines 531-538, on the parsed data
ConvertParsed(args) ==
    /\ pc = "parsed"
    /\ pc' = "done"
    /\ LET g == GeneratorOf(args)
       IN /\ gen_built' = g
          /\ generate_args' = args.io_port_names
          /\ gen' = GeneratorAfter(g, vcd_data, args.io_port_names)
          /\ doc' = generate(g, vcd_data, args.io_port_names)
    /\ UNCHANGED <<vcd_data, parserVars_but_pc, parse_log, reorderVars, pipelineVars>>

InitParse ==
    /\ ParserInit
    /\ PipelineIdle
    /\ ReorderIdle
    /\ vcd_data = EmptyLog
    /\ gen = MainGenerator
    /\ gen_built = MainGenerator
    /\ generate_args = <<>>
    /\ doc = NoDoc

NextParse ==
    \/ \E text \in ParseTexts : pc = "idle" /\ ParseBegin(text)
    \/ HeaderStep
    \/ HeaderExhausted
    \/ ValueStep
    \/ ParseReturn
    \/ \E args \in CallArgs : ConvertParsed(args)

SpecParse == InitParse /\ [][NextParse]_vars

-----------------------------------------------------------------------------
(* SpecReorder: reorder_wavedrom_signals(wavedrom_dict, reference_order,   *)
(* filter_to_reference)                                                    *)

\* most entries of a document
MaxEntries == 3

n_cik == <<"c", "i", "k">>

n_out_clk == <<"o", "u", "t", "_", "c", "l", "k">>

DocNames == { n_clk, n_CLK, n_d, n_out_clk }

RefNames == { n_clk, n_cik, n_d, n_q }

Entry(name) == [name |-> name, wave |-> <<"0">>, hasData |-> FALSE, data |-> <<>>]

Docs == { MkDoc([k \in 1..Len(names) |-> Entry(names[k])]) :
            names \in UNION { [1..n -> DocNames] : n \in 0..MaxEntries } }

NamesOf(entries) == [k \in 1..Len(entries) |-> entries[k].name]

IsPermutation(f, n) ==
    /\ Len(f) = n
    /\ \A k \in 1..n : f[k] \in 1..n
    /\ \A j, k \in 1..n : j # k => f[j] # f[k]

OrderingsOf(n) == { f \in [1..n -> 1..n] : IsPermutation(f, n) }

\* reference lists: short lists of possibly noisy names, and every ordering
\* of the document's own names
RefLists(d) ==
    { <<>> } \cup { <<a>> : a \in RefNames } \cup { <<a, b>> : a \in RefNames, b \in RefNames }
    \cup { [k \in 1..Len(d.signal) |-> d.signal[f[k]].name] : f \in OrderingsOf(Len(d.signal)) }

InitReorder ==
    /\ ParserInit
    /\ PipelineIdle
    /\ vcd_data = EmptyLog
    /\ gen = MainGenerator
    /\ gen_built = MainGenerator
    /\ generate_args = <<>>
    /\ doc = NoDoc
    /\ heap \in { <<d>> : d \in Docs }
    /\ reference_order = <<>>
    /\ filter_to_reference = TRUE
    /\ rpc = "idle"
    /\ ref_idx = 0
    /\ reordered = <<>>
    /\ used_indices = {}
    /\ result = 0
    /\ fuzzy_args = [ocr_name |-> <<>>, signal_name |-> <<>>]
    /\ fuzzy_result = <<>>

NextReorder ==
    \/ \E ref \in RefLists(heap[1]), filter \in BOOLEAN : ReorderBegin(ref, filter)
    \/ MatchRef
    \/ ReorderReturn

SpecReorder == InitReorder /\ [][NextReorder]_vars

-----------------------------------------------------------------------------
(* SpecVerilog: parse_verilog(verilog_code), the first stage of            *)
(* VerilogPipeline.process, on a pool of module sources                    *)

w_input == <<"i", "n", "p", "u", "t">>

w_output == <<"o", "u", "t", "p", "u", "t">>

w_reg == <<"r", "e", "g">>

w_wire == <<"w", "i", "r", "e">>

n_m == <<"m">>

\* the two bounds of a declared range: literals, a literal with blanks, and
\* parameter expressions
BoundStrs ==
    { <<"7">>, <<"0">>, <<" ", "3", " ">>, <<"W", "I", "D", "T", "H", "-", "1">>, <<"N">> }

Directions == { w_input, w_output, <<"I", "n", "p", "u", "t">> }

\* a header item that is only an identifier
Bare(name) == HeaderItem(<<>>, FALSE, FALSE, <<>>, <<>>, name)

Ranged(direction, is_signed, msb_str, lsb_str, name) ==
    HeaderItem(direction, is_signed, TRUE, msb_str, lsb_str, name)

Unranged(direction, name) == HeaderItem(direction, FALSE, FALSE, <<>>, <<>>, name)

Code(header, body) == [hasModule |-> TRUE, name |-> n_m, header |-> header, body |-> body]

\* module m (input clk, <dir> [msb:lsb] count); endmodule
AnsiSources ==
    { Code(<< Unranged(w_input, n_clk), Ranged(d, sg, m, l, n_count) >>, <<>>) :
        d \in Directions, sg \in BOOLEAN, m \in BoundStrs, l \in BoundStrs }

\* module m (clk, count); input clk; <dir> <net> [msb:lsb] count; endmodule
NonAnsiSources ==
    { Code(<< Bare(n_clk), Bare(n_count) >>,
           << BodyDecl(w_input, <<>>, FALSE, FALSE, <<>>, <<>>, << n_clk >>),
              BodyDecl(d, net, FALSE, TRUE, m, l, << n_count >>) >>) :
        d \in Directions, net \in { <<>>, w_reg, w_wire }, m \in BoundStrs,
        l \in BoundStrs }

OtherSources ==
    { \* no module header at all
      [hasModule |-> FALSE, name |-> <<>>, header |-> <<>>, body |-> <<>>],
      \* module m (); endmodule
      Code(<<>>, <<>>),
      \* module m (d, q); endmodule, no declaration in the body
      Code(<< Bare(n_d), Bare(n_q) >>, <<>>),
      \* module m (input wire, input d, output [7:0] d); endmodule
      Code(<< Unranged(w_input, w_wire), Unranged(w_input, n_d),
              Ranged(w_output, FALSE, <<"7">>, <<"0">>, n_d) >>, <<>>),
      \* module m (d); input d, q ; output [N:0] count; endmodule
      Code(<< Bare(n_d) >>,
           << BodyDecl(w_input, <<>>, FALSE, FALSE, <<>>, <<>>, << n_d, <<" ", "q", " ">> >>),
              BodyDecl(w_output, <<>>, TRUE, TRUE, <<"N">>, <<"0">>, << n_count >>) >>),
      \* module m (wire_d); input [3:0] d, _d; endmodule: the header's cleaned
      \* name is '_d'
      Code(<< Bare(<<"w", "i", "r", "e", "_", "d">>) >>,
           << BodyDecl(w_input, <<>>, FALSE, TRUE, <<"3">>, <<"0">>,
                       << n_d, <<" ", "_", "d">> >>) >>),
      \* module m (); input d; output q, count; endmodule
      Code(<<>>,
           << BodyDecl(w_input, <<>>, FALSE, FALSE, <<>>, <<>>, << n_d >>),
              BodyDecl(w_output, <<>>, FALSE, FALSE, <<>>, <<>>, << n_q, n_count >>) >>) }

VerilogSources == AnsiSources \cup NonAnsiSources \cup OtherSources

ReturnFailure(stage, message) ==
    [sample |-> <<>>, stage |-> stage, message |-> message]

\* process(), stage 1: module = parse_verilog(verilog_code)
ProcessParse ==
    /\ ppc = "idle"
    /\ module' = parse_verilog(process_args.verilog_code)
    /\ stages_run' = Append(stages_run, "parse")
    /\ IF module' = NoModule
       THEN /\ returned' = ReturnFailure("parse", "Failed to parse Verilog module")
            /\ ppc' = "returned"
       ELSE /\ ppc' = "testbench"
            /\ UNCHANGED returned
    /\ UNCHANGED <<pipeline, process_args, sim_result, encoderVars, parserVars,
                   reorderVars>>

InitVerilog ==
    /\ ParserInit
    /\ ReorderIdle
    /\ vcd_data = EmptyLog
    /\ gen = MainGenerator
    /\ gen_built = MainGenerator
    /\ generate_args = <<>>
    /\ doc = NoDoc
    /\ pipeline = [match_original |-> TRUE]
    /\ \E code \in VerilogSources :
          process_args = [verilog_code |-> code, has_image |-> FALSE]
    /\ module = NoModule
    /\ sim_result = NoSimulation
    /\ ppc = "idle"
    /\ stages_run = <<>>
    /\ returned = NoReturn

SpecVerilog == InitVerilog /\ [][ProcessParse]_vars

-----------------------------------------------------------------------------

(* SpecPipeline: VerilogPipeline.process(verilog_code, original_image_path)*)
(* The testbench generator, the simulator, the image reader and the        *)
(* renderer are outside the model: each outcome they can hand back is a    *)
(* choice of the action that calls them.                                   *)

StageOrder == << "parse", "testbench", "simulation", "vcd_convert", "render" >>

\* the loop over reference_order of reorder_wavedrom_signals, lines
\* 1029-1046, run to its end
RECURSIVE MatchedFrom(_, _, _, _, _)
MatchedFrom(ref, entries, k, matched, used) ==
    IF k > Len(ref) THEN [matched |-> matched, used |-> used]
    ELSE LET best == BestMatch(ref[k], entries, used)
         IN IF best # 0
            THEN MatchedFrom(ref, entries, k + 1, Append(matched, best), used \cup {best})
            ELSE MatchedFrom(ref, entries, k + 1, matched, used)

\* reorder_wavedrom_signals as a function of its arguments
reorder_wavedrom_signals(d, ref, filter) ==
    IF d.signal = <<>> \/ ref = <<>> THEN d
    ELSE LET m     == MatchedFrom(ref, d.signal, 1, <<>>, {})
             order == FinalOrder(m.matched, Len(d.signal), m.used, filter)
         IN [d EXCEPT !.signal = [k \in 1..Len(order) |-> d.signal[order[k]]]]

\* what the three extraction methods of extract_and_match_order can find: a
\* signal order and whether it came from the Verilog file
FoundOrder(signal_order, fromVerilog) ==
    [signal_order |-> signal_order, fromVerilog |-> fromVerilog]

FoundOrders ==
    { FoundOrder(<<>>, FALSE),
      FoundOrder(<< n_count, n_clk >>, FALSE),
      FoundOrder(<< n_q >>, FALSE),
      FoundOrder(<< n_q, n_count >>, TRUE) }

\* extract_and_match_order with filter_to_original left at its default
extract_and_match_order(d, found) ==
    IF found.signal_order # <<>>
    THEN reorder_wavedrom_signals(d, found.signal_order, ~found.fromVerilog)
    ELSE d

\* mutant: the signal check lets every document through
HasSignals_Always(d) == TRUE

\* wavedrom_dict.get("signal") is a non-empty list
HasSignals(d) == d.signal # <<>>

\* the keyword arguments process() passes to vcd_to_wavedrom, lines 173-179
PipelineCallArgs ==
    [ io_port_names    |-> [k \in 1..Len(module.ports) |-> module.ports[k].name],
      ports_given      |-> TRUE,
      port_definitions |-> module.ports,
      match_original   |-> pipeline.match_original ]

ProcessedSample(verilog_code, wavedrom_json, waveform_image, module_name) ==
    [ verilog_code |-> verilog_code, wavedrom_json |-> wavedrom_json,
      waveform_image |-> waveform_image, module_name |-> module_name ]

\* str(e) of an exception of the testbench generator or the renderer
ExceptionTexts == { "", "unsupported port", "wavedrom-cli failed" }

\* error_message of an unsuccessful SimulationResult
SimulationErrors ==
    { "Icarus Verilog (iverilog/vvp) not found in PATH", "Compilation timed out",
      "VCD file not generated" }

\* texts the simulator can leave in waveform.vcd
SimulatedTexts ==
    { ExampleText,
      << L_enddefinitions >>,
      << L_var(1, id_bang, n_d), L_enddefinitions, L_time(0), L_scalar("1", id_bang) >>,
      << L_blank >> }

\* stage 2, lines 159-164
ProcessTestbench ==
    /\ ppc = "testbench"
    /\ stages_run' = Append(stages_run, "testbench")
    /\ \/ /\ ppc' = "simulation"
          /\ UNCHANGED returned
       \/ \E e \in ExceptionTexts :
             /\ returned' = ReturnFailure("testbench", e)
             /\ ppc' = "returned"
    /\ UNCHANGED <<pipeline, process_args, module, sim_result, encoderVars,
                   parserVars, reorderVars>>

\* stage 3, lines 166-170
ProcessSimulation ==
    /\ ppc = "simulation"
    /\ stages_run' = Append(stages_run, "simulation")
    /\ \/ \E text \in SimulatedTexts : sim_result' = SimulationResult(TRUE, text, "")
       \/ \E msg \in SimulationErrors : sim_result' = SimulationResult(FALSE, <<>>, msg)
    /\ IF ~sim_result'.success
       THEN /\ returned' = ReturnFailure("simulation", sim_result'.error_message)
            /\ ppc' = "returned"
       ELSE /\ ppc' = "vcd_convert"
            /\ UNCHANGED returned
    /\ UNCHANGED <<pipeline, process_args, module, encoderVars, parserVars,
                   reorderVars>>

\* stage 4 up to the first line of the text: vcd_to_wavedrom constructs a
\* VCDParser (lines 49-54) and parse() resets its fields (lines 58-64)
ProcessConvertBegin ==
    /\ ppc = "vcd_convert"
    /\ ppc' = "converting"
    /\ stages_run' = Append(stages_run, "vcd_convert")
    /\ lines' = sim_result.vcd_content
    /\ line_idx' = 1
    /\ pc' = "header"
    /\ objs' = <<>>
    /\ signals' = <<>>
    /\ id_to_signal' = <<>>
    /\ current_scope' = <<>>
    /\ timescale' = DefaultTimescale
    /\ end_time' = 0
    /\ current_time' = 0
    /\ UNCHANGED <<pipeline, process_args, module, sim_result, returned, parse_log,
                   encoderVars, reorderVars>>

\* the rest of stage 4, lines 172-202: generate, stage 4b when an image path
\* was given (an exception of it leaves the document as it was), and the
\* signal check
ProcessConvertEnd ==
    /\ ppc = "converting"
    /\ pc = "parsed"
    /\ pc' = "done"
    /\ LET g         == GeneratorOf(PipelineCallArgs)
           generated == generate(g, vcd_data, PipelineCallArgs.io_port_names)
       IN /\ gen_built' = g
          /\ generate_args' = PipelineCallArgs.io_port_names
          /\ gen' = GeneratorAfter(g, vcd_data, PipelineCallArgs.io_port_names)
          /\ IF process_args.has_image
             THEN \/ \E found \in FoundOrders :
                        doc' = extract_and_match_order(generated, found)
                  \/ doc' = generated
             ELSE doc' = generated
    /\ IF ~HasSignals(doc')
       THEN /\ returned' = ReturnFailure("vcd_convert", "No signals found in VCD")
            /\ ppc' = "returned"
       ELSE /\ ppc' = "render"
            /\ UNCHANGED returned
    /\ UNCHANGED <<pipeline, process_args, module, sim_result, stages_run, vcd_data,
                   parserVars_but_pc, parse_log, reorderVars>>

\* stage 5 and the final return, lines 204-214
ProcessRender ==
    /\ ppc = "render"
    /\ ppc' = "returned"
    /\ stages_run' = Append(stages_run, "render")
    /\ \/ returned' = [ sample  |-> << ProcessedSample(process_args.verilog_code, doc,
                                                       "png", module.name) >>,
                        stage   |-> "None",
                        message |-> "None" ]
       \/ \E e \in ExceptionTexts : returned' = ReturnFailure("render", e)
    /\ UNCHANGED <<pipeline, process_args, module, sim_result, encoderVars,
                   parserVars, reorderVars>>

PipelineSources ==
    { [hasModule |-> FALSE, name |-> <<>>, header |-> <<>>, body |-> <<>>],
      Code(<<>>, <<>>),
      Code(<< Unranged(w_input, n_clk), Ranged(w_output, FALSE, <<"7">>, <<"0">>, n_count) >>,
           <<>>),
      Code(<< Bare(n_q) >>,
           << BodyDecl(w_output, w_reg, FALSE, FALSE, <<>>, <<>>, << n_q >>) >>) }

InitPipeline ==
    /\ ParserInit
    /\ ReorderIdle
    /\ vcd_data = EmptyLog
    /\ gen = MainGenerator
    /\ gen_built = MainGenerator
    /\ generate_args = <<>>
    /\ doc = NoDoc
    /\ pipeline \in { [match_original |-> b] : b \in BOOLEAN }
    /\ process_args \in { [verilog_code |-> code, has_image |-> b] :
                            code \in PipelineSources, b \in BOOLEAN }
    /\ module = NoModule
    /\ sim_result = NoSimulation
    /\ ppc = "idle"
    /\ stages_run = <<>>
    /\ returned = NoReturn

NextPipeline ==
    \/ ProcessParse
    \/ ProcessTestbench
    \/ ProcessSimulation
    \/ ProcessConvertBegin
    \/ HeaderStep
    \/ HeaderExhausted
    \/ ValueStep
    \/ ParseReturn
    \/ ProcessConvertEnd
    \/ ProcessRender

SpecPipeline == InitPipeline /\ [][NextPipeline]_vars

-----------------------------------------------------------------------------

(* SpecReparse: several parse() calls on one VCDParser object              *)

\* parse() calls on the one parser
MaxParses == 3

\* $timescale 10ps $end / $var wire 1 ! clk $end / $enddefinitions $end /
\* #0 / 1! / #2;  the same without the $timescale line;  a text with
\* another signal;  a text without declarations;  a text without
\* $enddefinitions
ReparseTexts ==
    { << L_timescale(<<"1", "0", "p", "s">>, TRUE), L_var(1, id_bang, n_clk),
         L_enddefinitions, L_time(0), L_scalar("1", id_bang), L_time(2) >>,
      << L_var(1, id_bang, n_clk), L_enddefinitions, L_time(0),
         L_scalar("1", id_bang), L_time(2) >>,
      << L_scope(<<"t", "b">>), L_var(2, id_hash, n_count), L_enddefinitions, L_time(1),
         L_vector(<<"1", "0">>, TRUE, id_hash) >>,
      << L_enddefinitions >>,
      << L_var(1, id_bang, n_d) >> }

InitReparse ==
    /\ ParserInit
    /\ PipelineIdle
    /\ ReorderIdle
    /\ vcd_data = EmptyLog
    /\ gen = MainGenerator
    /\ gen_built = MainGenerator
    /\ generate_args = <<>>
    /\ doc = NoDoc

NextReparse ==
    \/ \E text \in ReparseTexts : Len(parse_log) < MaxParses /\ ParseBegin(text)
    \/ HeaderStep
    \/ HeaderExhausted
    \/ ValueStep
    \/ ParseReturn

SpecReparse == InitReparse /\ [][NextReparse]_vars

-----------------------------------------------------------------------------

(* SpecFuzzy: fuzzy_match_score(ocr_name, signal_name) on pairs of names   *)

n_count70 == <<"c", "o", "u", "n", "t", "[", "7", ":", "0", "]">>

n_sys_clk == <<"s", "y", "s", "_", "c", "l", "k">>

n_clk_en == <<"c", "l", "k", "_", "e", "n">>

n_data == <<"d", "a", "t", "a">>

n_date == <<"d", "a", "t", "e">>

n_o_d == <<"o", "_", "d">>

\* names that meet every rule of the score: case twins, OCR confusions,
\* confusable single characters, bit ranges, known prefixes, suffixes,
\* containment, near misses and the empty name
FuzzyNames ==
    { n_clk, n_CLK, n_cik, n_out_clk, n_sys_clk, n_clk_en, n_count, n_count70,
      n_data, n_date, n_d, n_o_d, n_q, <<"a">>, <<"o">>, <<"0">>, <<"l">>, <<"1">>,
      <<"x", "q">>, <<"d", "0">>, <<"D", "O">>, <<>> }

\* the call and its return
FuzzyMatchScore ==
    /\ fuzzy_result = <<>>
    /\ fuzzy_result' = << fuzzy_match_score(fuzzy_args.ocr_name, fuzzy_args.signal_name) >>
    /\ UNCHANGED <<fuzzy_args, heap, reference_order, filter_to_reference, rpc, ref_idx,
                   reordered, used_indices, result, parserVars, encoderVars,
                   pipelineVars>>

InitFuzzy ==
    /\ ParserInit
    /\ PipelineIdle
    /\ vcd_data = EmptyLog
    /\ gen = MainGenerator
    /\ gen_built = MainGenerator
    /\ generate_args = <<>>
    /\ doc = NoDoc
    /\ heap = <<>>
    /\ reference_order = <<>>
    /\ filter_to_reference = TRUE
    /\ rpc = "idle"
    /\ ref_idx = 0
    /\ reordered = <<>>
    /\ used_indices = {}
    /\ result = 0
    /\ fuzzy_args \in { [ocr_name |-> a, signal_name |-> b] :
                          a \in FuzzyNames, b \in FuzzyNames }
    /\ fuzzy_result = <<>>

SpecFuzzy == InitFuzzy /\ [][FuzzyMatchScore]_vars

-----------------------------------------------------------------------------
(* SpecPortOrder: generate() with use_port_order and a port list           *)

\* ports before the two named ones of the long port list
FillerCount == 999

\* module ports f1, f2, ... that no signal is named after
FillerPorts(n) == [k \in 1..n |-> MkPort(<<"f">> \o NatToStr(k), 1, FALSE, 0, FALSE, 0)]

\* a module with more than a thousand ports: d has index 999, clk index 1000
LongPorts == FillerPorts(FillerCount) \o << p_d, p_clk >>

PortOrderPorts == { << p_count, p_d, p_clk >>, << p_clk >>, LongPorts }

n_COUNT == <<"C", "O", "U", "N", "T">>

\* signals with one change each; q matches no port, COUNT matches the port
\* count in another letter case
PortOrderSignals ==
    { MkSignal(<<"!">>, n_clk, 1, <<>>, << Change(0, <<"1">>) >>),
      MkSignal(<<"#">>, n_d, 1, <<>>, << Change(0, <<"0">>) >>),
      MkSignal(<<"%">>, n_q, 1, <<>>, << Change(0, <<"1">>) >>),
      MkSignal(<<"&">>, n_COUNT, 2, <<>>, << Change(0, <<"1", "0">>) >>) }

\* the signals in every declaration order, up to three of them
PortOrderLists ==
    { <<a>> : a \in PortOrderSignals }
    \cup { l \in PortOrderSignals \X PortOrderSignals : l[1] # l[2] }
    \cup { l \in PortOrderSignals \X PortOrderSignals \X PortOrderSignals :
               l[1] # l[2] /\ l[1] # l[3] /\ l[2] # l[3] }

InitPortOrder ==
    /\ ParserInit
    /\ PipelineIdle
    /\ ReorderIdle
    /\ vcd_data \in LogsOver(PortOrderLists)
    /\ \E ports \in PortOrderPorts :
          /\ gen = NewGenerator(0, 3, FALSE, <<>>, ports, TRUE, FALSE, FALSE)
          /\ gen_built = gen
    /\ generate_args = <<>>
    /\ doc = NoDoc

NextPortOrder == Generate(<<>>)

SpecPortOrder == InitPortOrder /\ [][NextPortOrder]_vars

-----------------------------------------------------------------------------
-----------------------------------------------------------------------------
(* SpecFilter: generate() on names the internal-signal heuristics read     *)

n_i == <<"i">>

n_i_d == <<"i", "_", "d">>

n_mem_a == <<"m", "e", "m", "_", "a">>

n_memx == <<"m", "e", "m", "x">>

n_cnt_x == <<"c", "n", "t", "_", "x">>

n_genvar == <<"g", "e", "n", "v", "a", "r">>

s_tb_Internal == <<"t", "b", ".", "I", "n", "t", "e", "r", "n", "a", "l">>

\* signals with one change each; the last one lies in the scope tb.Internal
FilterSignals ==
    { MkSignal(<<"!">>, nm, 1, <<>>, << Change(0, <<"1">>) >>) :
        nm \in {n_i, n_i_d, n_mem_a, n_memx, n_cnt_x, n_genvar, n_q} }
    \cup { MkSignal(<<"#">>, n_q, 1, s_tb_Internal, << Change(0, <<"0">>) >>) }

FilterLists ==
    { <<a>> : a \in FilterSignals }
    \cup { l \in FilterSignals \X FilterSignals : l[1] # l[2] }

\* no I/O names and internal signals dropped; I/O names given; internal
\* signals included
FilterGenerators ==
    { MainGenerator,
      NewGenerator(0, 3, TRUE, <<n_q, n_i>>, <<>>, TRUE, FALSE, FALSE),
      NewGenerator(0, 3, FALSE, <<>>, <<>>, TRUE, FALSE, FALSE) }

InitFilter ==
    /\ ParserInit
    /\ PipelineIdle
    /\ ReorderIdle
    /\ vcd_data \in LogsOver(FilterLists)
    /\ gen \in FilterGenerators
    /\ gen_built = gen
    /\ generate_args = <<>>
    /\ doc = NoDoc

NextFilter == Generate(<<>>)

SpecFilter == InitFilter /\ [][NextFilter]_vars

-----------------------------------------------------------------------------
(* Properties of the encoder (SpecEnc)                                     *)

RECURSIVE WithChanges(_)
WithChanges(sigs) ==
    IF sigs = <<>> THEN <<>>
    ELSE (IF sigs[1].values = <<>> THEN <<>> ELSE << sigs[1] >>) \o WithChanges(Tail(sigs))

\* the signal behind each entry of the last document: the kept signals that
\* have a recorded change, in output order
EntrySignals == WithChanges(SignalsToShow(gen, vcd_data))

\* num_steps as the specification states it
StatedNumSteps ==
    Min(gen.max_time_steps,
        Max(1, vcd_data.end_time \div _calculate_time_step(gen, vcd_data)))

CountOf(seq, c) == Cardinality({ k \in 1..Len(seq) : seq[k] = c })

ClockNamed(name) ==
    \/ Contains(Lower(name), <<"c", "l", "k">>)
    \/ Contains(Lower(name), <<"c", "l", "o", "c", "k">>)

\* C1: every entry of the document returned by generate has a wave of exactly
\* num_steps = min(maxTimeSteps, max(1, end_time div time_step)) characters,
\* so all entries of one document have the same wave length.
C1_WaveLengthIsNumSteps ==
    doc # NoDoc =>
        LET n == StatedNumSteps
        IN \A k \in 1..Len(doc.signal) : Len(doc.signal[k].wave) = n

\* C1 witness: a document with a clock-named entry and a multi-bit entry,
\* both of three steps.
C1_Witness ==
    /\ doc # NoDoc
    /\ Len(doc.signal) = 2
    /\ StatedNumSteps = 3
    /\ \E j, k \in 1..2 :
          /\ doc.signal[j].wave = <<"p", ".", ".">>
          /\ doc.signal[k].hasData
          /\ Len(doc.signal[k].wave) = 3

\* C2: for every entry produced for a signal of width > 1, the number of '='
\* in the wave equals the length of the data array, and the data key is
\* absent exactly when the wave has no '='.
C2_EqualsCountIsDataLength ==
    doc # NoDoc =>
        LET sigs == EntrySignals
        IN /\ Len(sigs) = Len(doc.signal)
           /\ \A k \in 1..Len(doc.signal) :
                 sigs[k].width > 1 =>
                    /\ CountOf(doc.signal[k].wave, "=") = Len(doc.signal[k].data)
                    /\ doc.signal[k].hasData <=> CountOf(doc.signal[k].wave, "=") > 0

\* C2 witness: a multi-bit entry with two '=' and two data values.
C2_Witness ==
    /\ doc # NoDoc
    /\ \E k \in 1..Len(doc.signal) :
          /\ EntrySignals[k].width > 1
          /\ CountOf(doc.signal[k].wave, "=") = 2
          /\ Len(doc.signal[k].data) = 2
          /\ CountOf(doc.signal[k].wave, "x") = 0

\* the other case of C2: a multi-bit entry whose wave starts with x, holds no
\* '=' and carries no data key
C2_WitnessNoData ==
    /\ doc # NoDoc
    /\ \E k \in 1..Len(doc.signal) :
          /\ EntrySignals[k].width > 1
          /\ ~doc.signal[k].hasData
          /\ doc.signal[k].wave[1] = "x"

\* C3: a width-1 signal whose name contains 'clk' or 'clock', encoded over
\* N >= 2 steps, has the wave 'p' followed by N-1 '.', whatever it holds.
C3_ClockWaveIsPThenDots ==
    doc # NoDoc =>
        LET sigs == EntrySignals
            n    == StatedNumSteps
        IN \A k \in 1..Len(doc.signal) :
              (sigs[k].width = 1 /\ ClockNamed(sigs[k].name) /\ n >= 2)
              => doc.signal[k].wave = <<"p">> \o [j \in 1..(n - 1) |-> "."]

\* C3 witness: 'clk' over 5 steps gives "p....", here for a trace that holds
\* z from time 0 on.
C3_Witness ==
    /\ doc # NoDoc
    /\ \E k \in 1..Len(doc.signal) :
          /\ EntrySignals[k].name = n_clk
          /\ EntrySignals[k].width = 1
          /\ EntrySignals[k].values = << Change(0, <<"z">>) >>
          /\ doc.signal[k].wave = <<"p", ".", ".", ".", ".">>

-----------------------------------------------------------------------------
(* Properties of the conversion of a text (SpecParse)                      *)

\* the example log was parsed and encoded with the port list clk, count[7:0]
ExampleConverted ==
    /\ pc = "done"
    /\ lines = ExampleText
    /\ gen.port_definitions = ExamplePorts

n_count_7_0 == <<"c", "o", "u", "n", "t", "[", "7", ":", "0", "]">>

\* C4 as stated: the example log yields a step size of 5 and 3 steps, clk
\* with wave "p.." and count[7:0] with wave "=.=" and data ["0", "1"].
C4_ExampleAsStated ==
    ExampleConverted =>
        /\ _calculate_time_step(gen, vcd_data) = 5
        /\ NumSteps(gen, _calculate_time_step(gen, vcd_data), vcd_data.end_time) = 3
        /\ doc.signal =
             << [name |-> n_clk, wave |-> <<"p", ".", ".">>, hasData |-> FALSE, data |-> <<>>],
                [name |-> n_count_7_0, wave |-> <<"=", ".", "=">>, hasData |-> TRUE,
                 data |-> << <<"0">>, <<"1">> >>] >>

\* C4 amended: the example log (with $enddefinitions, each record on its own
\* line, whitespace before a vector's identifier) yields a step size of 1 and
\* 15 steps: clk has a single change after time 0, so the fallback
\* max(1, 15 div 50) applies; clk gets 'p' and 14 '.', count[7:0] gets '=' and
\* 14 '.' with data ["0"], the change at time 15 lying past the last sample.
C4_ExampleAmended ==
    ExampleConverted =>
        /\ vcd_data.end_time = 15
        /\ _calculate_time_step(gen, vcd_data) = 1
        /\ NumSteps(gen, _calculate_time_step(gen, vcd_data), vcd_data.end_time) = 15
        /\ doc.signal =
             << [name |-> n_clk, wave |-> <<"p">> \o [k \in 1..14 |-> "."],
                 hasData |-> FALSE, data |-> <<>>],
                [name |-> n_count_7_0, wave |-> <<"=">> \o [k \in 1..14 |-> "."],
                 hasData |-> TRUE, data |-> << <<"0">> >>] >>

\* C4 witness: the example has been converted, both signals with two changes.
C4_Witness ==
    /\ ExampleConverted
    /\ Len(vcd_data.signals) = 2
    /\ \A k \in 1..2 : Len(vcd_data.signals[k].values) = 2
    /\ Len(doc.signal) = 2

\* C10 as stated: the change list of every signal is non-decreasing in time,
\* whatever timestamp markers and value records the text holds.
C10_ChangesNonDecreasing ==
    \A o \in 1..Len(objs) :
        \A k \in 1..(Len(objs[o].values) - 1) :
            objs[o].values[k].t <= objs[o].values[k + 1].t

-----------------------------------------------------------------------------
(* Properties of reorder_wavedrom_signals (SpecReorder)                    *)

InputEntries == heap[1].signal

\* the signal sequence of the returned document
OutputEntries == heap[result].signal

\* reference_order is an ordering of the document's own entry names
ReferenceIsOwnNames ==
    /\ Len(reference_order) = Len(InputEntries)
    /\ \E f \in OrderingsOf(Len(InputEntries)) :
          \A k \in 1..Len(InputEntries) : reference_order[k] = InputEntries[f[k]].name

\* the returned entries are exactly the input entries, each once
OutputIsReorderingOfInput ==
    \/ result = 1
    \/ /\ IsPermutation(reordered, Len(InputEntries))
       /\ OutputEntries = [k \in 1..Len(reordered) |-> InputEntries[reordered[k]]]

\* C5 as stated: for a reference order that is an ordering of the document's
\* own names, the output holds the same entries and the i-th output name
\* equals the i-th reference name.
C5_OwnNamesAsStated ==
    (rpc = "done" /\ ReferenceIsOwnNames) =>
        /\ OutputIsReorderingOfInput
        /\ \A k \in 1..Len(reference_order) : OutputEntries[k].name = reference_order[k]

NoCaseTwins ==
    \A j, k \in 1..Len(InputEntries) :
        Lower(InputEntries[j].name) = Lower(InputEntries[k].name)
        => InputEntries[j].name = InputEntries[k].name

\* C5 amended: for a reference order that is an ordering of the document's
\* own names, the output holds the same entries, and the i-th output name
\* equals the i-th reference name up to letter case - exactly when no two
\* entry names of the document differ in letter case only.
C5_OwnNamesAmended ==
    (rpc = "done" /\ ReferenceIsOwnNames) =>
        /\ OutputIsReorderingOfInput
        /\ Len(OutputEntries) = Len(reference_order)
        /\ \A k \in 1..Len(reference_order) :
              /\ Lower(OutputEntries[k].name) = Lower(reference_order[k])
              /\ NoCaseTwins => OutputEntries[k].name = reference_order[k]

\* C5 witness: three entries, two of the same name, returned in another order.
C5_Witness ==
    /\ rpc = "done"
    /\ ReferenceIsOwnNames
    /\ NoCaseTwins
    /\ Len(InputEntries) = 3
    /\ InputEntries[1].name = InputEntries[3].name
    /\ reordered = <<2, 1, 3>>

C7_InputNotMutated == [][heap'[1] = heap[1]]_vars

\* C7 witness: a call has returned a dict whose signal sequence differs from
\* the input's.
C7_Witness ==
    /\ rpc = "done"
    /\ result = 2
    /\ heap[2].signal # heap[1].signal
    /\ heap[2].config = heap[1].config

\* the unused entries whose score against ref_name is above the threshold
Candidates(ref_name) ==
    { k \in 1..Len(InputEntries) :
        /\ k \notin used_indices
        /\ ScoreGreater(fuzzy_match_score(ref_name, InputEntries[k].name), Threshold) }

\* C8: for each reference name, in order, the not-yet-used entry with the
\* highest score strictly above 0.4 is emitted (the earliest one on equal
\* scores) and marked used; with no such entry nothing is emitted or marked.
C8_GreedyBestMatch ==
    [][ (rpc = "match" /\ ref_idx <= Len(reference_order)) =>
          LET ref_name == reference_order[ref_idx]
              cands    == Candidates(ref_name)
          IN IF cands = {}
             THEN reordered' = reordered /\ used_indices' = used_indices
             ELSE \E b \in cands :
                    /\ \A k \in cands :
                          ~ScoreGreater(fuzzy_match_score(ref_name, InputEntries[k].name),
                                        fuzzy_match_score(ref_name, InputEntries[b].name))
                    /\ \A k \in cands :
                          ScoreEqual(fuzzy_match_score(ref_name, InputEntries[k].name),
                                     fuzzy_match_score(ref_name, InputEntries[b].name))
                          => b <= k
                    /\ reordered' = Append(reordered, b)
                    /\ used_indices' = used_indices \cup {b}
      ]_vars

\* C8 witness: two reference names were walked against entries 1 and 2 of
\* equal name; one name matched nothing, the other took entry 1.
C8_Witness ==
    /\ rpc = "match"
    /\ ref_idx = 3
    /\ Len(InputEntries) >= 2
    /\ InputEntries[1].name = InputEntries[2].name
    /\ reordered = <<1>>
    /\ used_indices = {1}

\* C9: with filter_to_reference = false and a non-empty reference list the
\* output is a permutation of the input: the matched entries in reference
\* order, then all unmatched entries in their original relative order.
C9_UnfilteredIsPermutation ==
    [][ (rpc = "match" /\ rpc' = "done" /\ ~filter_to_reference) =>
          LET n == Len(InputEntries)
              m == Len(reordered)
          IN /\ reference_order # <<>>
             /\ IsPermutation(reordered', n)
             /\ SubSeq(reordered', 1, m) = reordered
             /\ { reordered[k] : k \in 1..m } = used_indices
             /\ \A j, k \in (m + 1)..n : j < k => reordered'[j] < reordered'[k]
             /\ heap'[result'].signal = [k \in 1..n |-> InputEntries[reordered'[k]]]
      ]_vars

\* C9 witness: one of three entries matched; it comes first, the other two
\* follow in document order.
C9_Witness ==
    /\ rpc = "done"
    /\ ~filter_to_reference
    /\ used_indices = {2}
    /\ reordered = <<2, 1, 3>>
    /\ Len(OutputEntries) = 3

-----------------------------------------------------------------------------
(* Properties of the signal limit (SpecEnc)                                *)

\* the values of the constructor argument max_signals that give the
\* generator its max_signals field
MaxSignalsArgs ==
    { m \in 0..MAX_SIGNALS :
        NewGenerator(m, 0, FALSE, <<>>, <<>>, FALSE, FALSE, FALSE).max_signals
            = gen.max_signals }

\* the ordered, filtered signal list of the last generate(), before the cut
OrderedFiltered ==
    SignalsToShow([gen EXCEPT !.max_signals = Len(vcd_data.signals)], vcd_data)

\* the entries generate() emits for the first n signals of the ordered,
\* filtered list
EntriesOfFirst(n) ==
    LET first == WithChanges(SubSeq(OrderedFiltered, 1, Min(n, Len(OrderedFiltered))))
        step  == _calculate_time_step(gen, vcd_data)
    IN [k \in 1..Len(first) |->
          _generate_wave_entry(gen, first[k], step, vcd_data.end_time)]

\* C11 as stated: for every max_signals >= 0 passed to the constructor the
\* document holds at most max_signals entries, each from one of the first
\* max_signals signals of the ordered, filtered list.
C11_LimitAsStated ==
    doc # NoDoc =>
        \A m \in MaxSignalsArgs :
            /\ Len(doc.signal) <= m
            /\ doc.signal = EntriesOfFirst(m)

\* C11 amended: for every max_signals >= 1 passed to the constructor the
\* document holds at most max_signals entries, each from one of the first
\* max_signals signals of the ordered, filtered list; max_signals = 0 (like
\* None) stands for config.MAX_SIGNALS = 20, and the limit is then 20.
C11_LimitAmended ==
    doc # NoDoc =>
        \A m \in MaxSignalsArgs :
            LET limit == IF m = 0 THEN MAX_SIGNALS ELSE m
            IN /\ Len(doc.signal) <= limit
               /\ doc.signal = EntriesOfFirst(limit)

\* C11 witness: a generator built with max_signals = 1 was given two
\* signals with changes and emitted one entry, the first of the list.
C11_Witness ==
    /\ doc # NoDoc
    /\ MaxSignalsArgs = {1}
    /\ Len(WithChanges(OrderedFiltered)) = 2
    /\ Len(doc.signal) = 1
    /\ doc.signal[1].name = OrderedFiltered[1].name

-----------------------------------------------------------------------------
(* Properties of the step size (SpecEnc)                                   *)

\* the step size of the last generate()
ChosenStep == _calculate_time_step(gen, vcd_data)

FallbackStep == Max(1, vcd_data.end_time \div gen.max_time_steps)

\* the times of a change list, all of them or those after time 0
TimesOf(values, afterZero) ==
    LET keep == { k \in 1..Len(values) : ~afterZero \/ values[k].t > 0 }
        nth(j) == CHOOSE k \in keep : Cardinality({ i \in keep : i < k }) = j - 1
    IN [j \in 1..Cardinality(keep) |-> values[nth(j)].t]

SmallestGap(times) ==
    LET gaps == { times[k + 1] - times[k] : k \in 1..(Len(times) - 1) }
    IN CHOOSE m \in gaps : \A n \in gaps : m <= n

\* C12 as stated: when some clock-named signal has at least two recorded
\* value changes the step is the minimum gap between consecutive changes of
\* such a signal, otherwise max(1, end_time div maxTimeSteps); always >= 1.
C12_StepAsStated ==
    doc # NoDoc =>
        LET sigs   == vcd_data.signals
            clocks == { k \in 1..Len(sigs) :
                          ClockNamed(sigs[k].name) /\ Len(sigs[k].values) >= 2 }
        IN /\ ChosenStep >= 1
           /\ IF clocks # {}
              THEN \E k \in clocks : ChosenStep = SmallestGap(TimesOf(sigs[k].values, FALSE))
              ELSE ChosenStep = FallbackStep

\* the signals whose changes decide the step: name containing 'clk' in any
\* letter case, at least two changes at times > 0, their smallest
\* consecutive gap positive
PeriodGivers ==
    LET sigs == vcd_data.signals
    IN { k \in 1..Len(sigs) :
           /\ Contains(Lower(sigs[k].name), <<"c", "l", "k">>)
           /\ Len(TimesOf(sigs[k].values, TRUE)) >= 2
           /\ SmallestGap(TimesOf(sigs[k].values, TRUE)) > 0 }

\* C12 amended: with end_time = 0 the step is 1; otherwise, when some signal
\* whose name contains 'clk' has at least two changes at times > 0 with a
\* positive smallest consecutive gap, the step is that gap of the first such
\* signal in declaration order; otherwise it is
\* max(1, end_time div maxTimeSteps). The step is always >= 1.
C12_StepAmended ==
    doc # NoDoc =>
        /\ ChosenStep >= 1
        /\ IF vcd_data.end_time = 0 THEN ChosenStep = 1
           ELSE IF PeriodGivers # {}
           THEN LET first == CHOOSE k \in PeriodGivers : \A j \in PeriodGivers : k <= j
                IN ChosenStep = SmallestGap(TimesOf(vcd_data.signals[first].values, TRUE))
           ELSE ChosenStep = FallbackStep

\* C12 witness: two clocks of different periods; the first declared one,
\* whose changes after time 0 lie 2 apart, gives the step although the second
\* has the smaller gap.
C12_Witness ==
    /\ doc # NoDoc
    /\ Len(vcd_data.signals) = 2
    /\ PeriodGivers = {1, 2}
    /\ ChosenStep = 2
    /\ SmallestGap(TimesOf(vcd_data.signals[2].values, TRUE)) = 1

\* the fallback case of C12: a clock with changes at times 0 and 2 only has
\* one change after time 0, and the step is max(1, end_time div maxTimeSteps)
C12_WitnessFallback ==
    /\ doc # NoDoc
    /\ Len(vcd_data.signals) = 1
    /\ vcd_data.signals[1].name = n_clk
    /\ TimesOf(vcd_data.signals[1].values, FALSE) = <<0, 2>>
    /\ vcd_data.end_time = MaxEndTime
    /\ ChosenStep = FallbackStep

-----------------------------------------------------------------------------
(* Properties of the Verilog parser (SpecVerilog)                          *)

\* the ranges the source declares for a port name, in the header or the body
DeclaredRanges(code, name) ==
    { [msb_str |-> code.header[k].msb_str, lsb_str |-> code.header[k].lsb_str] :
        k \in { j \in 1..Len(code.header) :
                  /\ code.header[j].direction # <<>>
                  /\ code.header[j].hasRange
                  /\ code.header[j].name = name } }
    \cup
    { [msb_str |-> code.body[k].msb_str, lsb_str |-> code.body[k].lsb_str] :
        k \in { j \in 1..Len(code.body) :
                  /\ code.body[j].hasRange
                  /\ \E i \in 1..Len(code.body[j].names) :
                        Strip(code.body[j].names[i]) = name } }

\* how many times the source declares a port name
DeclarationCount(code, name) ==
    Cardinality({ j \in 1..Len(code.header) :
                    code.header[j].direction # <<>> /\ code.header[j].name = name })
    + Cardinality({ pr \in UNION { {j} \X (1..Len(code.body[j].names)) : j \in 1..Len(code.body) } :
                      Strip(code.body[pr[1]].names[pr[2]]) = name })

IsLiteralBound(s) == IsIntLiteral(Strip(s))

AbsDiff(a, b) == IF a >= b THEN a - b ELSE b - a

\* C13: a port declared with a bound that is not an integer literal has
\* width 8, msb 7 and lsb 0, in the ANSI header form and in the non-ANSI body
\* form alike; a port declared with two literal bounds has width
\* |msb - lsb| + 1 (ports the source declares once)
C13_DeclaredWidth ==
    ppc # "idle" /\ ~module.isNone =>
        \A k \in 1..Len(module.ports) :
            LET p == module.ports[k]
            IN \A r \in DeclaredRanges(process_args.verilog_code, p.name) :
                  DeclarationCount(process_args.verilog_code, p.name) = 1 =>
                  IF IsLiteralBound(r.msb_str) /\ IsLiteralBound(r.lsb_str)
                  THEN /\ p.hasMsb /\ p.msb = StrToInt(Strip(r.msb_str))
                       /\ p.hasLsb /\ p.lsb = StrToInt(Strip(r.lsb_str))
                       /\ p.width = AbsDiff(p.msb, p.lsb) + 1
                  ELSE p.width = 8 /\ p.hasMsb /\ p.msb = 7 /\ p.hasLsb /\ p.lsb = 0

-----------------------------------------------------------------------------
(* Properties of VerilogPipeline.process (SpecPipeline)                    *)

StageNames == { StageOrder[k] : k \in 1..Len(StageOrder) }

\* the stages entered are the first stages of the pipeline, in its order
StagesInOrder ==
    /\ Len(stages_run) <= Len(StageOrder)
    /\ \A k \in 1..Len(stages_run) : stages_run[k] = StageOrder[k]

ReturnedSample ==
    /\ Len(returned.sample) = 1
    /\ returned.stage = "None"
    /\ returned.message = "None"
    /\ returned.sample[1].verilog_code = process_args.verilog_code
    /\ returned.sample[1].module_name = module.name
    /\ returned.sample[1].wavedrom_json = doc
    /\ doc.signal # <<>>
    /\ returned.sample[1].waveform_image = "png"
    /\ stages_run = StageOrder

\* the failed stage is the last one entered, and what the later stages
\* would have written is untouched
ReturnedFailure ==
    /\ returned.sample = <<>>
    /\ returned.stage \in StageNames
    /\ returned.message # "None"
    /\ stages_run # <<>>
    /\ stages_run[Len(stages_run)] = returned.stage
    /\ returned.stage \in {"parse", "testbench"} => sim_result = NoSimulation
    /\ returned.stage \in {"parse", "testbench", "simulation"} => pc = "idle" /\ doc = NoDoc

C14_WitnessNoSignals ==
    /\ ppc = "returned"
    /\ returned.stage = "vcd_convert"
    /\ vcd_data.signals # <<>>

\* a call on a source without a module header
C14_WitnessNoModule == ppc = "returned" /\ returned.stage = "parse"

-----------------------------------------------------------------------------
(* Properties of a reused parser (SpecReparse)                             *)

\* C15: the event log parse returns depends only on the text: a text parsed
\* on a parser that has already parsed other texts yields the timescale,
\* signals and end_time that a fresh parser (the first call) yields for it
C15_LogDependsOnTextOnly ==
    \A j \in 1..Len(parse_log) :
        parse_log[j].text = parse_log[1].text =>
            /\ parse_log[j].log.timescale = parse_log[1].log.timescale
            /\ parse_log[j].log.signals = parse_log[1].log.signals
            /\ parse_log[j].log.end_time = parse_log[1].log.end_time

-----------------------------------------------------------------------------
(* Properties of repeated generate() calls (SpecEnc)                       *)

\* C16: the document generate returns depends only on the generator's
\* construction-time configuration and the arguments of the call: it is the
\* document the generator as constructed returns for these arguments,
\* whatever io_port_names earlier calls were given
C16_DocDependsOnArgsOnly ==
    doc # NoDoc => doc = generate(gen_built, vcd_data, generate_args)

-----------------------------------------------------------------------------
(* Properties of fuzzy_match_score (SpecFuzzy)                             *)

\* l and 1 read as i, 0 read as o
ConfusedChar(c) == IF c \in {"l", "1"} THEN "i" ELSE IF c = "0" THEN "o" ELSE c

ConfusedName(s) == [k \in 1..Len(s) |-> ConfusedChar(s[k])]

\* a name without its bit-range suffix
BaseName(s) ==
    IF s # <<>> /\ s[Len(s)] = "]" /\ \E k \in 1..Len(s) : s[k] = "["
    THEN SubSeq(s, 1, (CHOOSE k \in 1..Len(s) : s[k] = "[" /\ \A j \in 1..(k - 1) : s[j] # "[") - 1)
    ELSE s

IsKnownPrefix(p) ==
    p \in { <<"o", "u", "t", "_">>, <<"i", "n", "_">>, <<"o", "_">>, <<"i", "_">>,
            <<"p", "r", "e", "v", "_">> }

HasSubstring(s, sub) ==
    \E k \in 0..(Len(s) - Len(sub)) : SubSeq(s, k + 1, k + Len(sub)) = sub

Occurrences(s, c) == Cardinality({ k \in 1..Len(s) : s[k] = c })

RECURSIVE SumOver(_, _, _)
SumOver(chars, a, b) ==
    IF chars = {} THEN 0
    ELSE LET c == CHOOSE x \in chars : TRUE
         IN Min(Occurrences(a, c), Occurrences(b, c)) + SumOver(chars \ {c}, a, b)

\* characters the two names share, each character of either counted once
SharedChars(a, b) == SumOver({ a[k] : k \in 1..Len(a) }, a, b)

SharedPrefix(a, b) ==
    LET ks == { k \in 0..Min(Len(a), Len(b)) : SubSeq(a, 1, k) = SubSeq(b, 1, k) }
    IN CHOOSE k \in ks : \A j \in ks : j <= k

\* rule 8 in hundredths of 1/max_length: 0.6 x positional ratio + 0.4 x
\* common ratio + 0.15 x prefix ratio when the prefix has >= 2 characters,
\* capped at 0.85
BlendRule(rb, cb) ==
    LET longest == Max(Len(rb), Len(cb))
        same    == Cardinality({ k \in 1..Min(Len(rb), Len(cb)) : rb[k] = cb[k] })
        pre     == SharedPrefix(rb, cb)
        sum     == 60 * same + 40 * SharedChars(rb, cb) + (IF pre >= 2 THEN 15 * pre ELSE 0)
    IN IF sum >= 85 * longest THEN Score(85, 100) ELSE Score(sum, 100 * longest)

\* the score of the first applicable rule, in the order of the eight rules
FirstRuleScore(reference, candidate) ==
    LET r  == Lower(reference)
        c  == Lower(candidate)
        rb == BaseName(r)
        cb == BaseName(c)
    IN CASE r = c -> Score(100, 100)
         [] r # c /\ ConfusedName(r) = ConfusedName(c) -> Score(98, 100)
         [] OTHER ->
            IF Len(r) = 1 /\ Len(c) = 1
               /\ ({r[1], c[1]} \subseteq {"i", "l", "1"} \/ {r[1], c[1]} \subseteq {"o", "0", "a"})
            THEN Score(95, 100)
            ELSE IF rb = cb THEN Score(95, 100)
            ELSE IF \E k \in 1..Len(cb) : IsKnownPrefix(SubSeq(cb, 1, k))
                                          /\ SubSeq(cb, k + 1, Len(cb)) = rb
            THEN Score(90, 100)
            ELSE IF Len(rb) >= 3 /\ Len(cb) >= Len(rb)
                    /\ SubSeq(cb, Len(cb) - Len(rb) + 1, Len(cb)) = rb
            THEN Score(85, 100)
            ELSE IF Len(rb) >= 3 /\ Len(cb) >= 3
                    /\ (HasSubstring(cb, rb) \/ HasSubstring(rb, cb))
            THEN Score(80 * Min(Len(rb), Len(cb)), 100 * Max(Len(rb), Len(cb)))
            ELSE BlendRule(rb, cb)

\* C17: fuzzy_match_score(reference, candidate) returns the score of the
\* first applicable rule, in the order equality 1.0, equality after the
\* OCR mapping 0.98, confusable single characters 0.95, equal bases 0.95,
\* known prefix 0.9, suffix of length >= 3 0.85, containment
\* 0.8 x shorter/longer, else the capped blend; the score lies in [0, 1]
C17_FirstRuleWins ==
    fuzzy_result # <<>> =>
        /\ ScoreEqual(fuzzy_result[1],
                      FirstRuleScore(fuzzy_args.ocr_name, fuzzy_args.signal_name))
        /\ fuzzy_result[1].d > 0
        /\ 0 <= fuzzy_result[1].n
        /\ fuzzy_result[1].n <= fuzzy_result[1].d

\* a reference scored against a candidate that carries a known prefix
C17_Witness ==
    /\ fuzzy_args = [ocr_name |-> n_clk, signal_name |-> n_out_clk]
    /\ fuzzy_result = << Score(90, 100) >>

\* a pair that reaches the blend and its cap
C17_WitnessBlend ==
    /\ fuzzy_args = [ocr_name |-> n_data, signal_name |-> n_date]
    /\ fuzzy_result = << Score(85, 100) >>

-----------------------------------------------------------------------------
(* Properties of match_original (SpecParse)                                *)

\* C18: with match_original = true, vcd_to_wavedrom keeps the event log's
\* declaration order and drops no signal for being absent from
\* io_port_names: the entries are those of the log's signals that have a
\* recorded change, in the order of their declaration, whatever
\* io_port_names and port_definitions are
C18_MatchOriginalKeepsOrder ==
    [][ \A args \in CallArgs :
            ConvertParsed(args) /\ args.match_original =>
                LET kept == WithChanges(vcd_data.signals)
                IN /\ Len(doc'.signal) = Len(kept)
                   /\ \A k \in 1..Len(kept) :
                         doc'.signal[k].name = _get_display_name(gen', kept[k]) ]_vars

\* a conversion with match_original that kept clk and count, neither of them
\* in io_port_names = ['q'], clk first although the port definitions list
\* count first
C18_Witness ==
    /\ pc = "done"
    /\ gen_built.use_vcd_order
    /\ gen.io_port_names = { n_q }
    /\ Len(doc.signal) = 2
    /\ doc.signal[1].name = n_clk
    /\ gen.port_definitions = << p_count, p_clk >>

-----------------------------------------------------------------------------
(* Properties of the entry names (SpecEnc)                                 *)

\* the full name of a port: name[msb:lsb] when a range was declared or the
\* width is above 1 (then from width-1 down to 0), the bare name otherwise
FullNameOf(port) ==
    IF port.hasMsb /\ port.hasLsb
    THEN port.name \o <<"[">> \o IntToStr(port.msb) \o <<":">> \o IntToStr(port.lsb) \o <<"]">>
    ELSE IF port.width > 1
    THEN port.name \o <<"[">> \o IntToStr(IF port.hasMsb THEN port.msb ELSE port.width - 1)
         \o <<":">> \o IntToStr(IF port.hasLsb THEN port.lsb ELSE 0) \o <<"]">>
    ELSE port.name

\* the port definitions whose name equals the signal's, ignoring case
PortsNamedLike(signal) ==
    { gen.port_definitions[k] : k \in { j \in 1..Len(gen.port_definitions) :
          Lower(gen.port_definitions[j].name) = Lower(signal.name) } }

\* C19: the name of every entry is the full name of a port whose name equals
\* the signal's bare name case-insensitively when such a port definition
\* exists, and the signal's bare name otherwise
C19_EntryNames ==
    doc # NoDoc =>
        /\ Len(doc.signal) = Len(EntrySignals)
        /\ \A k \in 1..Len(EntrySignals) :
              IF PortsNamedLike(EntrySignals[k]) = {}
              THEN doc.signal[k].name = EntrySignals[k].name
              ELSE \E port \in PortsNamedLike(EntrySignals[k]) :
                      doc.signal[k].name = FullNameOf(port)

\* a document whose entry for the signal 'Clock' is named after the port
\* 'CLOCK' declared [0:0]
C19_Witness ==
    /\ doc # NoDoc
    /\ \E k \in 1..Len(doc.signal) :
          /\ EntrySignals[k].name = n_Clock
          /\ doc.signal[k].name = <<"C", "L", "O", "C", "K", "[", "0", ":", "0", "]">>

\* an entry without a port definition of its name keeps the bare name
C19_WitnessBare ==
    /\ doc # NoDoc
    /\ gen.port_definitions # <<>>
    /\ \E k \in 1..Len(doc.signal) :
          /\ PortsNamedLike(EntrySignals[k]) = {}
          /\ doc.signal[k].name = n_count

-----------------------------------------------------------------------------
(* Properties of the single-bit wave (SpecEnc)                             *)

\* the value sampled at a time: that of the last change at or before it (of
\* changes at one time the last recorded), x when there is none yet
SampleAt(signal, time) ==
    LET before == { j \in 1..Len(signal.values) : signal.values[j].t <= time }
    IN IF before = {} THEN <<"x">>
       ELSE signal.values[CHOOSE j \in before : \A i \in before :
                              \/ signal.values[i].t < signal.values[j].t
                              \/ signal.values[i].t = signal.values[j].t /\ i <= j].v

SingleCharValues(signal) ==
    \A j \in 1..Len(signal.values) : signal.values[j].v \in ScalarValues

\* C20: for a width-1 signal that is not clock-named, the wave character at
\* step i is '.' if and only if i >= 1 and the value sampled at i*step equals
\* the value sampled at (i-1)*step; otherwise it is the sampled value's own
\* character (0, 1, x or z)
C20_SingleBitWave ==
    doc # NoDoc =>
        \A k \in 1..Len(EntrySignals) :
            LET signal == EntrySignals[k]
                wave   == doc.signal[k].wave
            IN signal.width = 1 /\ ~ClockNamed(signal.name) /\ SingleCharValues(signal) =>
                  \A i \in 0..(Len(wave) - 1) :
                      LET now == SampleAt(signal, i * ChosenStep)
                      IN IF i >= 1 /\ now = SampleAt(signal, (i - 1) * ChosenStep)
                         THEN wave[i + 1] = "."
                         ELSE wave[i + 1] = now[1]

-----------------------------------------------------------------------------
(* Properties of the multi-bit wave (SpecEnc)                              *)

\* the number a string of hexadecimal digits denotes
RECURSIVE HexValue(_)
HexValue(str) ==
    IF str = <<>> THEN 0
    ELSE 16 * HexValue(SubSeq(str, 1, Len(str) - 1)) + (IndexIn(HexDigits, str[Len(str)]) - 1)

\* str is the uppercase hexadecimal rendering, without leading zeros, of the
\* binary string value
IsHexOf(str, value) ==
    /\ str # <<>>
    /\ \A k \in 1..Len(str) : \E d \in 1..Len(HexDigits) : HexDigits[d] = str[k]
    /\ Len(str) > 1 => str[1] # "0"
    /\ HexValue(str) = BinToInt(value)

\* the bit-string _generate_multi_bit_wave samples at a step
SampledAtStep(signal, i) == get_value_at(signal, i * ChosenStep)

\* C21: for a signal of width > 1, at every step whose sampled bit-string
\* differs from the previous step's (step 0 has no previous one), the wave
\* character is 'x' if the value contains an x bit, 'z' if it contains a z bit
\* and no x bit, and otherwise '='; the k-th '=' of the wave is paired with
\* the k-th data entry, the uppercase hexadecimal rendering without leading
\* zeros of the binary value sampled at that step.
C21_MultiBitWave ==
    doc # NoDoc =>
        \A k \in 1..Len(EntrySignals) :
            LET signal == EntrySignals[k]
                wave   == doc.signal[k].wave
                data   == doc.signal[k].data
            IN signal.width > 1 =>
                  \A i \in 0..(Len(wave) - 1) :
                      LET now == SampledAtStep(signal, i)
                          nth == CountOf(SubSeq(wave, 1, i + 1), "=")
                      IN (i = 0 \/ now # SampledAtStep(signal, i - 1)) =>
                            IF Contains(now, <<"x">>) THEN wave[i + 1] = "x"
                            ELSE IF Contains(now, <<"z">>) THEN wave[i + 1] = "z"
                            ELSE /\ wave[i + 1] = "="
                                 /\ nth <= Len(data)
                                 /\ IsHexOf(data[nth], now)

\* C21 witness: a multi-bit entry whose samples are 1011, 1011 again and a
\* value with both a z and an x bit: wave "=.x" with the one data entry B.
C21_Witness ==
    /\ doc # NoDoc
    /\ \E k \in 1..Len(EntrySignals) :
          /\ EntrySignals[k].width > 1
          /\ EntrySignals[k].values = << Change(0, <<"1", "0", "1", "1">>), Change(2, <<"z", "x">>) >>
          /\ doc.signal[k].wave = <<"=", ".", "x">>
          /\ doc.signal[k].data = << <<"B">> >>

\* the other cases of C21: no change yet at step 0, then a binary value, then
\* a z bit without an x bit ...
C21_WitnessZ ==
    /\ doc # NoDoc
    /\ \E k \in 1..Len(EntrySignals) :
          /\ EntrySignals[k].width > 1
          /\ doc.signal[k].wave = <<"x", "=", "z">>
          /\ doc.signal[k].data = << <<"2">> >>

\* ... and a second '=' paired with the second data entry
C21_WitnessPaired ==
    /\ doc # NoDoc
    /\ \E k \in 1..Len(EntrySignals) :
          /\ EntrySignals[k].width > 1
          /\ doc.signal[k].wave = <<"=", ".", "=">>
          /\ doc.signal[k].data = << <<"1">>, <<"2">> >>

-----------------------------------------------------------------------------
(* Properties of the scope stack (SpecParse)                               *)

\* the first n lines are scope-enter, scope-exit and variable-declaration
\* directives only
OnlyScopesAndVars(n) ==
    \A j \in 1..n : lines[j].k \in {"scope", "upscope", "var"} /\ lines[j].ok

\* the names of the scopes entered and not yet exited after the first n
\* lines; a $scope line without a name token enters nothing
RECURSIVE OpenScopes(_)
OpenScopes(n) ==
    IF n = 0 THEN <<>>
    ELSE LET before == OpenScopes(n - 1)
         IN IF lines[n].k = "scope" /\ lines[n].name # <<>>
            THEN Append(before, lines[n].name)
            ELSE IF lines[n].k = "upscope" /\ before # <<>>
            THEN SubSeq(before, 1, Len(before) - 1)
            ELSE before

RECURSIVE DotJoined(_)
DotJoined(names) ==
    IF names = <<>> THEN <<>>
    ELSE IF Len(names) = 1 THEN names[1]
    ELSE names[1] \o <<".">> \o DotJoined(Tail(names))

\* the key stated for the declaration on line j
StatedKey(j) ==
    IF OpenScopes(j - 1) = <<>> THEN lines[j].name
    ELSE DotJoined(OpenScopes(j - 1)) \o <<".">> \o lines[j].name

\* the header lines read so far
HeaderRead == IF pc = "header" THEN line_idx - 1 ELSE 0

\* C22: during the header phase, after any sequence of scope-enter,
\* scope-exit and variable-declaration directives, each declared signal is
\* keyed by the dot-joined names of the scopes entered and not yet exited at
\* its declaration, followed by its leaf name (the bare leaf name when the
\* stack is empty), and a scope-exit on an empty stack changes nothing: the
\* stack holds exactly the scopes entered and not yet exited.
C22_ScopedKeys ==
    (pc = "header" /\ OnlyScopesAndVars(HeaderRead)) =>
        /\ current_scope = OpenScopes(HeaderRead)
        /\ \A j \in 1..HeaderRead :
              lines[j].k = "var" =>
                 /\ DictHas(signals, StatedKey(j))
                 /\ objs[DictGet(signals, StatedKey(j))].name = lines[j].name
        /\ \A k \in 1..Len(signals) :
              \E j \in 1..HeaderRead : lines[j].k = "var" /\ signals[k].key = StatedKey(j)

-----------------------------------------------------------------------------
(* Properties of a text without $enddefinitions (SpecParse)                *)

HeaderKinds == {"timescale", "scope", "upscope", "var"}

NoEndDefinitions == \A j \in 1..Len(lines) : lines[j].k # "enddefinitions"

HasDeclaration == \E j \in 1..Len(lines) : lines[j].k = "var" /\ lines[j].ok

\* the first line after the last header directive
RestStart ==
    LET hs == { j \in 1..Len(lines) : lines[j].k \in HeaderKinds }
    IN (CHOOSE j \in hs : \A i \in hs : i <= j) + 1

\* the time of the last timestamp marker between RestStart and line j
TimeBefore(j) ==
    LET ts == { i \in RestStart..(j - 1) : lines[i].k = "time" /\ lines[i].ok }
    IN IF ts = {} THEN 0 ELSE lines[CHOOSE i \in ts : \A m \in ts : m <= i].t

\* line j is a well-formed value record for a declared identifier
RecordOfDeclared(j) ==
    /\ \/ lines[j].k = "scalar"
       \/ lines[j].k = "vector" /\ lines[j].sep /\ lines[j].bits # <<>>
    /\ \E i \in 1..(RestStart - 1) :
          lines[i].k = "var" /\ lines[i].ok /\ lines[i].id = lines[j].id

\* C23: when the text contains header directives but no end-of-definitions
\* directive, the rest of the text is treated as value-change phase: the
\* timestamp markers and value records that follow the declarations are
\* applied, so end_time is the largest timestamp and every record is a change
\* of a declared signal's trace, at the time of the marker before it.
C23_ValuesWithoutEndDefinitions ==
    (pc \in {"parsed", "done"} /\ NoEndDefinitions /\ HasDeclaration) =>
        /\ \A j \in RestStart..Len(lines) :
              (lines[j].k = "time" /\ lines[j].ok) => vcd_data.end_time >= lines[j].t
        /\ \A j \in RestStart..Len(lines) :
              RecordOfDeclared(j) =>
                 \E s \in 1..Len(vcd_data.signals) :
                    /\ vcd_data.signals[s].id = lines[j].id
                    /\ \E c \in 1..Len(vcd_data.signals[s].values) :
                          vcd_data.signals[s].values[c] =
                              [t |-> TimeBefore(j), v |-> Lower(lines[j].bits)]

-----------------------------------------------------------------------------
(* Properties of the port order (SpecPortOrder)                            *)

\* the ordered signal list of generate()
OrderedSignals == SignalsToShow(gen, vcd_data)

\* the indices of the ports a signal's bare name matches, ignoring case
PortIndices(signal) ==
    { k \in 1..Len(gen.port_definitions) :
        Lower(gen.port_definitions[k].name) = Lower(signal.name) }

\* the place of a signal in the declaration order
Arrival(signal) == CHOOSE k \in 1..Len(vcd_data.signals) : vcd_data.signals[k] = signal

\* C24: under PORT_ORDER with a non-empty port list of any length, the
\* ordered signal list places every signal whose bare name matches a port
\* (case-insensitively) before every signal that matches no port, matched
\* signals ascending by the index of their port, and unmatched signals in
\* their arrival (declaration) order.
C24_PortOrder ==
    (gen.use_port_order /\ ~gen.use_vcd_order /\ gen.port_definitions # <<>>) =>
        /\ Len(OrderedSignals) = Len(vcd_data.signals)
        /\ \A i, j \in 1..Len(OrderedSignals) :
              i < j =>
                 LET a == OrderedSignals[i]
                     b == OrderedSignals[j]
                 IN /\ PortIndices(a) = {} => PortIndices(b) = {}
                    /\ (PortIndices(a) # {} /\ PortIndices(b) # {}) =>
                          \E x \in PortIndices(a), y \in PortIndices(b) : x <= y
                    /\ (PortIndices(a) = {} /\ PortIndices(b) = {}) =>
                          Arrival(a) < Arrival(b)

-----------------------------------------------------------------------------
(* Properties of the internal-signal heuristics (SpecFilter)               *)

\* the classification as stated: a single-letter loop-variable name, a name
\* that begins with mem or cnt_, or a scope path that contains "internal"
StatedInternal(signal) ==
    \/ Len(signal.name) = 1 /\ signal.name[1] \in {"i", "j", "k", "l", "m", "n"}
    \/ StartsWith(signal.name, <<"m", "e", "m">>)
    \/ StartsWith(signal.name, <<"c", "n", "t", "_">>)
    \/ Contains(Lower(signal.scope), <<"i", "n", "t", "e", "r", "n", "a", "l">>)

\* C25: when no explicit I/O name set is supplied and internal signals are
\* not included, a signal is classified internal (and dropped from the
\* document) whenever its name is a single-letter loop-variable name, or
\* begins with the prefix 'mem' or 'cnt_', or its scope path contains
\* "internal"; all other signals are kept.
C25_InternalHeuristics ==
    (doc # NoDoc /\ gen.io_ports_only /\ gen.io_port_names = {}) =>
        /\ \A k \in 1..Len(vcd_data.signals) :
              _is_internal_signal(gen, vcd_data.signals[k])
                  <=> StatedInternal(vcd_data.signals[k])
        /\ { EntrySignals[k] : k \in 1..Len(EntrySignals) }
              = { vcd_data.signals[k] : k \in { j \in 1..Len(vcd_data.signals) :
                                                   ~StatedInternal(vcd_data.signals[j]) } }
        /\ Len(doc.signal) = Len(EntrySignals)
        /\ \A k \in 1..Len(doc.signal) : doc.signal[k].name = EntrySignals[k].name

-----------------------------------------------------------------------------
(* Properties of the non-ANSI extraction (SpecVerilog)                     *)

\* the identifiers listed in the module header's port list
HeaderIdentifiers(code) == { code.header[k].name : k \in 1..Len(code.header) }

\* the names the body declarations declare, in the order they are encountered
RECURSIVE DeclaredNames(_, _)
DeclaredNames(body, k) ==
    IF k > Len(body) THEN <<>>
    ELSE [i \in 1..Len(body[k].names) |-> Strip(body[k].names[i])]
         \o DeclaredNames(body, k + 1)

RECURSIVE KeepListed(_, _)
KeepListed(names, listed) ==
    IF names = <<>> THEN <<>>
    ELSE (IF names[1] \in listed THEN << names[1] >> ELSE <<>>)
         \o KeepListed(Tail(names), listed)

PortNames(ports) == [k \in 1..Len(ports) |-> ports[k].name]

\* C26: non-ANSI extraction is used only when ANSI extraction of
\* the header found no port (otherwise the ports are those of the header),
\* and in that mode every extracted port's name is one of the identifiers
\* listed in the module header's port list, with ports in the order their
\* body declarations are encountered - for every header, including one whose
\* identifier list is empty.
C26_NonAnsiNames ==
    (ppc # "idle" /\ ~module.isNone) =>
        LET code == process_args.verilog_code
        IN IF _parse_ansi_ports(code.header) # <<>>
           THEN module.ports = _parse_ansi_ports(code.header)
           ELSE /\ \A k \in 1..Len(module.ports) :
                      module.ports[k].name \in HeaderIdentifiers(code)
                /\ PortNames(module.ports)
                      = KeepListed(DeclaredNames(code.body, 1), HeaderIdentifiers(code))

-----------------------------------------------------------------------------
(* Properties of the emitted entries (SpecEnc)                             *)

\* the first maxSignals signals of the ordered, filtered list
FirstMaxSignals == SubSeq(OrderedFiltered, 1, Min(gen.max_signals, Len(OrderedFiltered)))

\* C27: generate emits an entry for a signal if and only if the signal is
\* among the first maxSignals of the ordered, filtered list and has at least
\* one recorded change: the entries are, in order, those of the signals with
\* a change among the first maxSignals, and a signal without a change yields
\* no entry and still occupies one of the maxSignals slots.
C27_EntryIffShownAndChanged ==
    doc # NoDoc =>
        LET shown == WithChanges(FirstMaxSignals)
        IN /\ Len(doc.signal) = Len(shown)
           /\ \A k \in 1..Len(shown) :
                 doc.signal[k].name = _get_display_name(gen, shown[k])
           /\ Len(doc.signal) <= gen.max_signals

\* C27 witness: maxSignals = 1 and two signals, the first without a recorded
\* change, the second with changes: the document holds no entry.
C27_Witness ==
    /\ doc # NoDoc
    /\ gen.max_signals = 1
    /\ Len(OrderedFiltered) = 2
    /\ OrderedFiltered[1].values = <<>>
    /\ OrderedFiltered[2].values # <<>>
    /\ doc.signal = <<>>

\* the other case of C27: of two signals with changes the second is cut off
C27_WitnessCut ==
    /\ doc # NoDoc
    /\ gen.max_signals = 1
    /\ Len(OrderedFiltered) = 2
    /\ OrderedFiltered[1].values # <<>>
    /\ OrderedFiltered[2].values # <<>>
    /\ Len(doc.signal) = 1

-----------------------------------------------------------------------------
(* Properties of an identifier declared twice (SpecParse)                  *)

\* the first line of the value-change phase
ValuesFrom ==
    LET es == { j \in 1..Len(lines) : lines[j].k = "enddefinitions" }
    IN IF es = {} THEN Len(lines) + 1
       ELSE (CHOOSE j \in es : \A i \in es : j <= i) + 1

\* the lines of the well-formed declarations of the header, in order
RECURSIVE DeclLinesUpTo(_)
DeclLinesUpTo(n) ==
    IF n = 0 THEN <<>>
    ELSE IF lines[n].k = "var" /\ lines[n].ok
    THEN Append(DeclLinesUpTo(n - 1), n)
    ELSE DeclLinesUpTo(n - 1)

DeclLines == DeclLinesUpTo(ValuesFrom - 1)

\* the time of the last timestamp marker of the value-change phase up to line n
TimeAt(n) ==
    LET ts == { i \in ValuesFrom..n : lines[i].k = "time" /\ lines[i].ok }
    IN IF ts = {} THEN 0 ELSE lines[CHOOSE i \in ts : \A m \in ts : m <= i].t

\* line j is a value record for the identifier id
RecordFor(id, j) ==
    /\ lines[j].id = id
    /\ \/ lines[j].k = "scalar"
       \/ lines[j].k = "vector" /\ lines[j].sep /\ lines[j].bits # <<>>

\* the value records for id among the lines of the value-change phase up to
\* line n, each with the time of the marker before it
RECURSIVE RecordsFor(_, _)
RecordsFor(id, n) ==
    IF n < ValuesFrom THEN <<>>
    ELSE IF RecordFor(id, n)
    THEN Append(RecordsFor(id, n - 1), [t |-> TimeAt(n), v |-> Lower(lines[n].bits)])
    ELSE RecordsFor(id, n - 1)

\* the value-change lines read so far
ValuesRead == IF pc = "values" THEN Min(line_idx - 1, Len(lines)) ELSE Len(lines)

\* declarations a < b of two signals with one identifier
SharedIdentifier(a, b) ==
    /\ a < b
    /\ objs[a].id = objs[b].id
    /\ StatedKey(DeclLines[a]) # StatedKey(DeclLines[b])

\* C28: when two variable declarations bind the same short identifier (the
\* same net declared in two scopes), both signals exist in the log under
\* their qualified names, every later value record for that identifier is
\* appended only to the most recently declared of them, and the earlier
\* signal's trace stays empty.
C28_SharedIdentifier ==
    (pc \in {"values", "parsed"} /\ Len(objs) = Len(DeclLines)) =>
        \A a, b \in 1..Len(objs) :
            SharedIdentifier(a, b) =>
                /\ DictHas(signals, StatedKey(DeclLines[a]))
                /\ DictHas(signals, StatedKey(DeclLines[b]))
                /\ DictGet(signals, StatedKey(DeclLines[a]))
                      # DictGet(signals, StatedKey(DeclLines[b]))
                /\ objs[a].values = <<>>
                /\ (\A c \in 1..Len(objs) : objs[c].id = objs[b].id => c <= b)
                      => objs[b].values = RecordsFor(objs[b].id, ValuesRead)

-----------------------------------------------------------------------------
(* Properties of the first wave character (SpecEnc)                        *)

LevelChars == {"0", "1", "x", "z"}

\* C29: the first character of every wave produced by generate is never '.':
\* for a width-1 signal that is not clock-named it is one of 0, 1, x, z, and
\* the first sample's own character when the sample is one of these; for a
\* clock-named width-1 signal encoded over at least 2 steps it is 'p'; for a
\* multi-bit signal it is '=', 'x' or 'z'.
C29_FirstCharacter ==
    doc # NoDoc =>
        \A k \in 1..Len(EntrySignals) :
            LET signal == EntrySignals[k]
                wave   == doc.signal[k].wave
                first  == Lower(SampledAtStep(signal, 0))
            IN /\ wave # <<>>
               /\ wave[1] # "."
               /\ (signal.width = 1 /\ ~ClockNamed(signal.name)) =>
                     /\ wave[1] \in LevelChars
                     /\ (Len(first) = 1 /\ first[1] \in LevelChars) => wave[1] = first[1]
               /\ (signal.width = 1 /\ ClockNamed(signal.name) /\ Len(wave) >= 2) =>
                     wave[1] = "p"
               /\ signal.width > 1 => wave[1] \in {"=", "x", "z"}

\* C29 witness: a width-1 signal that is not clock-named and whose first
\* change comes after time 0 has the first sample x and a wave that starts
\* with 'x' ...
C29_Witness ==
    /\ doc # NoDoc
    /\ \E k \in 1..Len(EntrySignals) :
          /\ EntrySignals[k].width = 1
          /\ ~ClockNamed(EntrySignals[k].name)
          /\ EntrySignals[k].values[1].t > 0
          /\ Len(doc.signal[k].wave) >= 2
          /\ doc.signal[k].wave[1] = "x"

\* ... a clock-named width-1 signal over at least 2 steps starts with 'p', a
\* clock-named one over 1 step with its sample ...
C29_WitnessClock ==
    /\ doc # NoDoc
    /\ \E k, m \in 1..Len(EntrySignals) :
          /\ EntrySignals[k].width = 1
          /\ ClockNamed(EntrySignals[k].name)
          /\ Len(doc.signal[k].wave) >= 2
          /\ doc.signal[k].wave[1] = "p"
          /\ EntrySignals[m].width > 1
          /\ doc.signal[m].wave[1] = "="

\* ... and a multi-bit signal named clk starts with '=', not with 'p'
C29_WitnessWide ==
    /\ doc # NoDoc
    /\ \E k \in 1..Len(EntrySignals) :
          /\ EntrySignals[k].width > 1
          /\ ClockNamed(EntrySignals[k].name)
          /\ Len(doc.signal[k].wave) >= 2
          /\ doc.signal[k].wave[1] = "="

-----------------------------------------------------------------------------
(* Properties of the two clock tests (SpecEnc)                             *)

\* a width-1 signal of the same name, encoded over 2 steps, is rendered with
\* the clock special case
RenderedAsClock(signal) ==
    _generate_single_bit_wave(gen, [signal EXCEPT !.width = 1], ChosenStep, 2).wave
        = <<"p", ".">>

\* the signal's changes would give a step: at least two changes at times > 0
\* whose smallest consecutive gap is positive
GivesPeriod(signal) ==
    /\ Len(Transitions(signal.values)) >= 2
    /\ MinPeriod(Transitions(signal.values)) > 0

\* C30: the encoder uses one notion of clock: a signal is eligible to
\* determine the step size exactly when a width-1 signal of the same name
\* would be rendered with the clock special case, so when the first signal
\* of the log is rendered as a clock and its changes give a period, that
\* period is the step.
C30_OneClockNotion ==
    (doc # NoDoc /\ vcd_data.signals # <<>>) =>
        /\ \A k \in 1..Len(vcd_data.signals) :
              IsClockForStep(vcd_data.signals[k]) <=> RenderedAsClock(vcd_data.signals[k])
        /\ LET first == vcd_data.signals[1]
           IN (vcd_data.end_time # 0 /\ RenderedAsClock(first) /\ GivesPeriod(first))
                 => ChosenStep = MinPeriod(Transitions(first.values))

====
